---------------------------- MODULE Spec2Model ----------------------------
(***************************************************************************)
(* Model of the nelsc calendar converter: the Gregorian engine (grcal.c),  *)
(* the NELSC cycle engine (nelsc_cycle.c), the base-24 digits (base24.c),  *)
(* the date formats (nelsc_format.c) and the subprograms of nelsc.c.       *)
(*                                                                         *)
(* Every C function is an operator that computes what the C code computes, *)
(* statement by statement.  A call of abort() is the result record with    *)
(* fault = TRUE.  An out-parameter is a field of the result record; where  *)
(* the code may leave the pointed-to variable alone, the operator takes    *)
(* the variable's prior content as a parameter.                            *)
(*                                                                         *)
(* The state machine is one call of one function: Init draws the function  *)
(* and its arguments, the Call_ action of that function applies it.  The   *)
(* two engines share no state and never call each other: SpecGrcal is the  *)
(* Gregorian engine, SpecCycle the NELSC cycle engine, Spec the two side   *)
(* by side, SpecLengths the two length predicates of the cycle engine,     *)
(* SpecYears the conversions between months and years, SpecBase24 the      *)
(* digit functions and SpecPairs the pair functions of base24.c,           *)
(* SpecFormat the NELSC date reader, SpecScan the two date readers and     *)
(* dateToOffset, SpecCli one run of a subprogram of nelsc.c, SpecDayInfo   *)
(* the report of a day and SpecNewYear the new-year chart.  The pointer    *)
(* arguments are taken to be non-NULL.                                     *)
(***************************************************************************)
EXTENDS Integers, Sequences, FiniteSets

VARIABLES pc, call, args, ret

vars == <<pc, call, args, ret>>

(***************************************************************************)
(* C arithmetic on int32_t: "/" truncates toward zero and "%" has the sign *)
(* of the dividend.                                                        *)
(***************************************************************************)
CDiv(a, b) == IF a >= 0 THEN a \div b ELSE -((-a) \div b)

CMod(a, b) == a - (b * CDiv(a, b))

(***************************************************************************)
(* grcal.h / grcal.c constants                                             *)
(***************************************************************************)
\* Mutant of GRCAL_DAY_MIN: the range opens one day early.
GRCAL_DAY_MIN_Early == 139750 - 1

GRCAL_DAY_MIN == 139750

GRCAL_DAY_MAX == 3214073

MONTH_COUNT == 12

MONTH_OFFSET == 2

LONG_MONTH_LENGTH == 31

SHORT_MONTH_LENGTH == 30

LEAP_MONTH_LENGTH == 29

NONLEAP_MONTH_LENGTH == 28

QC_DAYS == 146097

C_DAYS == 36524

Q_DAYS == 1461

Y_DAYS == 365

Y_LEAP_DAYS == 366

QC_C_COUNT == 4

C_Q_COUNT == 25

Q_Y_COUNT == 4

QC_YEARS == 400

C_YEARS == 100

Q_YEARS == 4

BASE_YEAR == 1200

MAX_YEAR == 9999

\* Mutant of m_pattern: April (the second entry) has 31 days.
m_pattern_AprilLong ==
  <<"+", "+", "+", "-", "+", "+", "-", "+", "-", "+", "+", "*">>

\* The March-based month pattern; the C string's terminating NUL follows it.
m_pattern == <<"+", "-", "+", "-", "+", "+", "-", "+", "-", "+", "+", "*">>

\* The result of a call that reached abort().
Fault == [fault |-> TRUE]

\* Mutant of isLeapYear: the test of divisibility by 400 is left out.
isLeapYear_No400(y) ==
  IF y < 1 THEN Fault
  ELSE [fault |-> FALSE,
        leapyear |-> (CMod(y, 4) = 0) /\ (CMod(y, 100) # 0)]

\* Mutant of isLeapYear: every fourth year is a leap year.
isLeapYear_Julian(y) ==
  IF y < 1 THEN Fault
  ELSE [fault |-> FALSE, leapyear |-> CMod(y, 4) = 0]

(***************************************************************************)
(* static bool isLeapYear(int32_t y)                                       *)
(***************************************************************************)
isLeapYear(y) ==
  IF y < 1 THEN Fault
  ELSE [fault |-> FALSE,
        leapyear |-> (CMod(y, 400) = 0)
                     \/ ((CMod(y, 4) = 0) /\ (CMod(y, 100) # 0))]

(***************************************************************************)
(* static int32_t monthLength(int32_t i)                                   *)
(***************************************************************************)
monthLength(i) ==
  IF (i < 0) \/ (i >= MONTH_COUNT) THEN Fault
  ELSE LET c == m_pattern[i + 1]
       IN  IF c = "+" THEN [fault |-> FALSE, result |-> LONG_MONTH_LENGTH]
           ELSE IF c = "-" THEN [fault |-> FALSE, result |-> SHORT_MONTH_LENGTH]
           ELSE IF c = "*" THEN [fault |-> FALSE, result |-> 0]
           ELSE Fault

(***************************************************************************)
(* grcal_offsetToDate: the division cascade, lines 490-504.                *)
(***************************************************************************)
GrDecompose(offs) ==
  LET qc == CDiv(offs, QC_DAYS)
      o1 == CMod(offs, QC_DAYS)
      c  == CDiv(o1, C_DAYS)
      o2 == CMod(o1, C_DAYS)
      q  == CDiv(o2, Q_DAYS)
      o3 == CMod(o2, Q_DAYS)
      y  == CDiv(o3, Y_DAYS)
      d  == CMod(o3, Y_DAYS)
  IN  [qc |-> qc, c |-> c, q |-> q, y |-> y, d |-> d]

\* Mutant of GrLeapDayAdjust: the leap day at the end of a quad century is
\* not handled.
GrLeapDayAdjust_NoQuadCentury(r) ==
  IF r.y = Q_Y_COUNT
  THEN [r EXCEPT !.y = Q_Y_COUNT - 1, !.d = Y_LEAP_DAYS - 1]
  ELSE r

\* Mutant of GrLeapDayAdjust: the special case "y == Q_Y_COUNT" is left out.
GrLeapDayAdjust_NoQuadYear(r) ==
  IF r.c = QC_C_COUNT
  THEN [r EXCEPT !.c = QC_C_COUNT - 1, !.q = C_Q_COUNT - 1,
                 !.y = Q_Y_COUNT - 1, !.d = Y_LEAP_DAYS - 1]
  ELSE r

(***************************************************************************)
(* grcal_offsetToDate: the two special cases, lines 506-524.               *)
(***************************************************************************)
GrLeapDayAdjust(r) ==
  LET s == IF r.c = QC_C_COUNT
           THEN [r EXCEPT !.c = QC_C_COUNT - 1, !.q = C_Q_COUNT - 1,
                          !.y = Q_Y_COUNT - 1, !.d = Y_LEAP_DAYS - 1]
           ELSE r
  IN  IF s.y = Q_Y_COUNT
      THEN [s EXCEPT !.y = Q_Y_COUNT - 1, !.d = Y_LEAP_DAYS - 1]
      ELSE s

(***************************************************************************)
(* grcal_offsetToDate: the month loop "while (d > 0)", lines 530-546.      *)
(* steps counts the calls of monthLength.                                  *)
(***************************************************************************)
RECURSIVE GrMonthWalk(_, _, _)
GrMonthWalk(month, d, steps) ==
  IF d > 0
  THEN LET ml == monthLength(month)
       IN  IF ml.fault THEN [fault |-> TRUE, month |-> month, d |-> d,
                             steps |-> steps + 1]
           ELSE IF (ml.result = 0) \/ (d < ml.result)
                THEN [fault |-> FALSE, month |-> month, d |-> d,
                      steps |-> steps + 1]
                ELSE GrMonthWalk(month + 1, d - ml.result, steps + 1)
  ELSE [fault |-> FALSE, month |-> month, d |-> d, steps |-> steps]

(***************************************************************************)
(* void grcal_offsetToDate(offs, pYear, pMonth, pDayOfMonth)               *)
(***************************************************************************)
grcal_offsetToDate(offs) ==
  IF (offs < GRCAL_DAY_MIN) \/ (offs > GRCAL_DAY_MAX) THEN Fault
  ELSE LET r    == GrLeapDayAdjust(GrDecompose(offs))
           year == (r.qc * QC_YEARS) + (r.c * C_YEARS)
                   + (r.q * Q_YEARS) + r.y + BASE_YEAR
           w    == GrMonthWalk(0, r.d, 0)
           day  == w.d + 1
           m2   == w.month + MONTH_OFFSET
           roll == m2 >= MONTH_COUNT
       IN  IF w.fault THEN Fault
           ELSE [fault |-> FALSE,
                 year  |-> IF roll THEN year + 1 ELSE year,
                 month |-> (IF roll THEN m2 - MONTH_COUNT ELSE m2) + 1,
                 day   |-> day]

\* Mutant of GrMonthSum: the loop runs while "x <= month".
RECURSIVE GrMonthSum_Inclusive(_, _, _)
GrMonthSum_Inclusive(x, month, offs) ==
  IF x <= month
  THEN LET ml == monthLength(x)
       IN  IF ml.fault THEN [fault |-> TRUE, offs |-> offs]
           ELSE GrMonthSum_Inclusive(x + 1, month, offs + ml.result)
  ELSE [fault |-> FALSE, offs |-> offs]

(***************************************************************************)
(* grcal_dateToOffset: "for(x = 0; x < month; x++) offs += monthLength(x)" *)
(* lines 685-689.                                                          *)
(***************************************************************************)
RECURSIVE GrMonthSum(_, _, _)
GrMonthSum(x, month, offs) ==
  IF x < month
  THEN LET ml == monthLength(x)
       IN  IF ml.fault THEN [fault |-> TRUE, offs |-> offs]
           ELSE GrMonthSum(x + 1, month, offs + ml.result)
  ELSE [fault |-> FALSE, offs |-> offs]

\* Mutant of grcal_dateToOffset: the offset is written before the range
\* of the result is checked.
grcal_dateToOffset_WritesOnReject(mem, year, month, dayofmonth) ==
  LET Reject == [fault |-> FALSE, result |-> FALSE, offs |-> mem]
  IN
  IF (year <= BASE_YEAR) \/ (month < 1) \/ (dayofmonth < 1) THEN Reject
  ELSE IF (year > MAX_YEAR) \/ (month > MONTH_COUNT) THEN Reject
  ELSE
    LET d0    == dayofmonth - 1
        mr    == month - 1 - MONTH_OFFSET
        myear == IF mr < 0 THEN year - 1 ELSE year
        mm    == IF mr < 0 THEN mr + MONTH_COUNT ELSE mr
        ml    == monthLength(mm)
        leap  == isLeapYear(myear + 1)
    IN
    IF ml.fault THEN Fault
    ELSE IF (ml.result = 0) /\ leap.fault THEN Fault
    ELSE
      LET month_len == IF ml.result = 0
                       THEN (IF leap.leapyear THEN LEAP_MONTH_LENGTH
                                              ELSE NONLEAP_MONTH_LENGTH)
                       ELSE ml.result
      IN
      IF d0 >= month_len THEN Reject
      ELSE
        LET yr   == myear - BASE_YEAR
            qc   == CDiv(yr, QC_YEARS)
            y1   == CMod(yr, QC_YEARS)
            c    == CDiv(y1, C_YEARS)
            y2   == CMod(y1, C_YEARS)
            q    == CDiv(y2, Q_YEARS)
            y3   == CMod(y2, Q_YEARS)
            base == (qc * QC_DAYS) + (c * C_DAYS) + (q * Q_DAYS) + (y3 * Y_DAYS)
            s    == GrMonthSum(0, mm, base)
            offs == s.offs + d0
        IN
        IF s.fault THEN Fault
        ELSE IF (offs < GRCAL_DAY_MIN) \/ (offs > GRCAL_DAY_MAX)
        THEN [fault |-> FALSE, result |-> FALSE, offs |-> offs]
        ELSE [fault |-> FALSE, result |-> TRUE, offs |-> offs]

(***************************************************************************)
(* bool grcal_dateToOffset(pOffs, year, month, dayofmonth)                 *)
(* mem is the content of *pOffs before the call; the field offs is its     *)
(* content after the call.                                                 *)
(***************************************************************************)
grcal_dateToOffset(mem, year, month, dayofmonth) ==
  LET Reject == [fault |-> FALSE, result |-> FALSE, offs |-> mem]
  IN
  IF (year <= BASE_YEAR) \/ (month < 1) \/ (dayofmonth < 1) THEN Reject
  ELSE IF (year > MAX_YEAR) \/ (month > MONTH_COUNT) THEN Reject
  ELSE
    LET d0    == dayofmonth - 1
        mr    == month - 1 - MONTH_OFFSET
        myear == IF mr < 0 THEN year - 1 ELSE year
        mm    == IF mr < 0 THEN mr + MONTH_COUNT ELSE mr
        ml    == monthLength(mm)
        leap  == isLeapYear(myear + 1)
    IN
    IF ml.fault THEN Fault
    ELSE IF (ml.result = 0) /\ leap.fault THEN Fault
    ELSE
      LET month_len == IF ml.result = 0
                       THEN (IF leap.leapyear THEN LEAP_MONTH_LENGTH
                                              ELSE NONLEAP_MONTH_LENGTH)
                       ELSE ml.result
      IN
      IF d0 >= month_len THEN Reject
      ELSE
        LET yr   == myear - BASE_YEAR
            qc   == CDiv(yr, QC_YEARS)
            y1   == CMod(yr, QC_YEARS)
            c    == CDiv(y1, C_YEARS)
            y2   == CMod(y1, C_YEARS)
            q    == CDiv(y2, Q_YEARS)
            y3   == CMod(y2, Q_YEARS)
            base == (qc * QC_DAYS) + (c * C_DAYS) + (q * Q_DAYS) + (y3 * Y_DAYS)
            s    == GrMonthSum(0, mm, base)
            offs == s.offs + d0
        IN
        IF s.fault THEN Fault
        ELSE IF (offs < GRCAL_DAY_MIN) \/ (offs > GRCAL_DAY_MAX) THEN Reject
        ELSE [fault |-> FALSE, result |-> TRUE, offs |-> offs]

(***************************************************************************)
(* nelsc_cycle.h / nelsc_cycle.c constants                                 *)
(***************************************************************************)
NELSC_CYCLE_DAYMIN == -35364

NELSC_CYCLE_DAYMAX == 175020

NELSC_CYCLE_MONMIN == -1197

\* Mutant of NELSC_CYCLE_MONMAX: the parameter checks let one more month
\* through.
NELSC_CYCLE_MONMAX_Late == 5926 + 1

\* Mutant of NELSC_CYCLE_MONMAX: the last month left out of the range.
NELSC_CYCLE_MONMAX_Short == 5926 - 1

NELSC_CYCLE_MONMAX == 5926

NELSC_CYCLE_YEARMIN == -96

NELSC_CYCLE_YEARMAX == 479

\* Mutant of NELSC_CYCLE_GROFFS: the shift one day short.
NELSC_CYCLE_GROFFS_Short == 264773 - 1

NELSC_CYCLE_GROFFS == 264773

DAYS_PER_SHORT_MONTH == 28

DAYS_PER_LONG_MONTH == 35

MONTHS_PER_SHORT_YEAR == 12

MONTHS_PER_LONG_YEAR == 13

DAYS_PER_MONTH_PATTERN == 945

MONTH_PATTERN_LENGTH == 32

MONTHS_PER_YEAR_SPAN == 136

\* Mutant of MONTHS_PER_YEAR_PATTERN: 21 spans without the forced
\* thirteenth month.
MONTHS_PER_YEAR_PATTERN_NoForced == 2857 - 1

MONTHS_PER_YEAR_PATTERN == 2857

YEAR_SPAN_LENGTH == 11

YEAR_PATTERN_LENGTH == 231

ABSOLUTE_DAY_OFFSET == 308

ABSOLUTE_MONTH_OFFSET == 10

\* Mutant of DAY_UP_BOOST: one month pattern less, 37 x 945 days.
DAY_UP_BOOST_OnePatternShort == 35910 - 945

DAY_UP_BOOST == 35910

MONTH_UP_SINK == 1216

MONTH_UP_BOOST == 1496

YEAR_UP_SINK == 121

YEAR_DOWN_BOOST == YEAR_UP_SINK

MONTH_DOWN_SINK == MONTH_UP_BOOST

MONTH_DOWN_BOOST == MONTH_UP_SINK

DAY_DOWN_SINK == DAY_UP_BOOST

\* Mutant of m_month_pattern: the first long month of the pattern is short.
m_month_pattern_LostLong ==
  <<"S", "S", "S", "S",  "S", "S", "S", "L", "S",
    "S", "S", "L", "S",  "S", "S", "S", "L", "S",
    "S", "S", "L", "S",  "S", "S", "S", "L", "S",
                         "S", "S", "S", "L", "S">>

\* Mutant of m_month_pattern: the second month of the pattern is long.
m_month_pattern_ExtraLong ==
  <<"S", "L", "L", "S",  "S", "S", "S", "L", "S",
    "S", "S", "L", "S",  "S", "S", "S", "L", "S",
    "S", "S", "L", "S",  "S", "S", "S", "L", "S",
                         "S", "S", "S", "L", "S">>

\* "SSLS" "SSSLS" "SSLS" "SSSLS" "SSLS" "SSSLS" "SSSLS"
m_month_pattern ==
  <<"S", "S", "L", "S",  "S", "S", "S", "L", "S",
    "S", "S", "L", "S",  "S", "S", "S", "L", "S",
    "S", "S", "L", "S",  "S", "S", "S", "L", "S",
                         "S", "S", "S", "L", "S">>

\* "SL" "SL" "SSL" "SSL" "S"
m_year_span ==
  <<"S", "L",  "S", "L",  "S", "S", "L",  "S", "S", "L",  "S">>

(***************************************************************************)
(* The character a C string holds at index i (from 0): the terminating NUL *)
(* at index Len(str).  An index past the terminator is outside the object. *)
(***************************************************************************)
CharAt(str, i) ==
  IF (i >= 0) /\ (i < Len(str)) THEN str[i + 1]
  ELSE IF i = Len(str) THEN "NUL"
  ELSE "OUTSIDE"

(***************************************************************************)
(* static bool charToBool(char c)                                          *)
(***************************************************************************)
charToBool(c) ==
  IF c = "L" THEN [fault |-> FALSE, result |-> TRUE]
  ELSE IF c = "S" THEN [fault |-> FALSE, result |-> FALSE]
  ELSE Fault

\* Mutant of DayToMonthWalk: a long month takes only 28 days off d.
RECURSIVE DayToMonthWalk_ShortStep(_, _, _)
DayToMonthWalk_ShortStep(i, d, month_count) ==
  IF d > 0
  THEN LET mlong == charToBool(CharAt(m_month_pattern, i))
       IN  IF mlong.fault
           THEN [fault |-> TRUE, month_count |-> month_count, d |-> d, i |-> i]
           ELSE IF (mlong.result /\ (d < DAYS_PER_LONG_MONTH))
                   \/ (~mlong.result /\ (d < DAYS_PER_SHORT_MONTH))
                THEN [fault |-> FALSE, month_count |-> month_count, d |-> d,
                      i |-> i]
                ELSE DayToMonthWalk_ShortStep(i + 1, d - DAYS_PER_SHORT_MONTH,
                                              month_count + 1)
  ELSE [fault |-> FALSE, month_count |-> month_count, d |-> d, i |-> i]

\* Mutant of DayToMonthWalk: the walk stops one day late, on the first day
\* of the next month.
RECURSIVE DayToMonthWalk_LateBreak(_, _, _)
DayToMonthWalk_LateBreak(i, d, month_count) ==
  IF d > 0
  THEN LET mlong == charToBool(CharAt(m_month_pattern, i))
       IN  IF mlong.fault
           THEN [fault |-> TRUE, month_count |-> month_count, d |-> d, i |-> i]
           ELSE IF (mlong.result /\ (d <= DAYS_PER_LONG_MONTH))
                   \/ (~mlong.result /\ (d <= DAYS_PER_SHORT_MONTH))
                THEN [fault |-> FALSE, month_count |-> month_count, d |-> d,
                      i |-> i]
                ELSE DayToMonthWalk_LateBreak(i + 1,
                                    IF mlong.result
                                    THEN d - DAYS_PER_LONG_MONTH
                                    ELSE d - DAYS_PER_SHORT_MONTH,
                                    month_count + 1)
  ELSE [fault |-> FALSE, month_count |-> month_count, d |-> d, i |-> i]

(***************************************************************************)
(* nelsc_cycle_dayToMonth: the loop "while (d > 0)", lines 215-241.        *)
(* i is the position of pc in m_month_pattern.                             *)
(***************************************************************************)
RECURSIVE DayToMonthWalk(_, _, _)
DayToMonthWalk(i, d, month_count) ==
  IF d > 0
  THEN LET mlong == charToBool(CharAt(m_month_pattern, i))
       IN  IF mlong.fault
           THEN [fault |-> TRUE, month_count |-> month_count, d |-> d, i |-> i]
           ELSE IF (mlong.result /\ (d < DAYS_PER_LONG_MONTH))
                   \/ (~mlong.result /\ (d < DAYS_PER_SHORT_MONTH))
                THEN [fault |-> FALSE, month_count |-> month_count, d |-> d,
                      i |-> i]
                ELSE DayToMonthWalk(i + 1,
                                    IF mlong.result
                                    THEN d - DAYS_PER_LONG_MONTH
                                    ELSE d - DAYS_PER_SHORT_MONTH,
                                    month_count + 1)
  ELSE [fault |-> FALSE, month_count |-> month_count, d |-> d, i |-> i]

\* Mutant of MonthToDaySum: the loop runs while "i <= m".
RECURSIVE MonthToDaySum_Inclusive(_, _, _)
MonthToDaySum_Inclusive(i, m, day_count) ==
  IF i <= m
  THEN LET mlong == charToBool(CharAt(m_month_pattern, i))
       IN  IF mlong.fault THEN [fault |-> TRUE, day_count |-> day_count]
           ELSE MonthToDaySum_Inclusive(i + 1, m,
                                        IF mlong.result
                                        THEN day_count + DAYS_PER_LONG_MONTH
                                        ELSE day_count + DAYS_PER_SHORT_MONTH)
  ELSE [fault |-> FALSE, day_count |-> day_count]

(***************************************************************************)
(* nelsc_cycle_monthToDay: the loop "for(i = 0; i < m; i++)", lines        *)
(* 291-304.                                                                *)
(***************************************************************************)
RECURSIVE MonthToDaySum(_, _, _)
MonthToDaySum(i, m, day_count) ==
  IF i < m
  THEN LET mlong == charToBool(CharAt(m_month_pattern, i))
       IN  IF mlong.fault THEN [fault |-> TRUE, day_count |-> day_count]
           ELSE MonthToDaySum(i + 1, m,
                              IF mlong.result
                              THEN day_count + DAYS_PER_LONG_MONTH
                              ELSE day_count + DAYS_PER_SHORT_MONTH)
  ELSE [fault |-> FALSE, day_count |-> day_count]

\* Mutant of MonthToYearWalk: a long year takes only 12 months off m.
RECURSIVE MonthToYearWalk_ShortStep(_, _, _)
MonthToYearWalk_ShortStep(i, m, year_count) ==
  IF m > 0
  THEN LET mlong == charToBool(CharAt(m_year_span, i))
       IN  IF mlong.fault
           THEN [fault |-> TRUE, year_count |-> year_count, m |-> m, i |-> i]
           ELSE IF (mlong.result /\ (m < MONTHS_PER_LONG_YEAR))
                   \/ (~mlong.result /\ (m < MONTHS_PER_SHORT_YEAR))
                THEN [fault |-> FALSE, year_count |-> year_count, m |-> m,
                      i |-> i]
                ELSE MonthToYearWalk_ShortStep(i + 1, m - MONTHS_PER_SHORT_YEAR,
                                               year_count + 1)
  ELSE [fault |-> FALSE, year_count |-> year_count, m |-> m, i |-> i]

(***************************************************************************)
(* nelsc_cycle_monthToYear: the loop "while (m > 0)", lines 360-387.       *)
(* i is the position of pc in m_year_span.                                 *)
(***************************************************************************)
RECURSIVE MonthToYearWalk(_, _, _)
MonthToYearWalk(i, m, year_count) ==
  IF m > 0
  THEN LET mlong == charToBool(CharAt(m_year_span, i))
       IN  IF mlong.fault
           THEN [fault |-> TRUE, year_count |-> year_count, m |-> m, i |-> i]
           ELSE IF (mlong.result /\ (m < MONTHS_PER_LONG_YEAR))
                   \/ (~mlong.result /\ (m < MONTHS_PER_SHORT_YEAR))
                THEN [fault |-> FALSE, year_count |-> year_count, m |-> m,
                      i |-> i]
                ELSE MonthToYearWalk(i + 1,
                                     IF mlong.result
                                     THEN m - MONTHS_PER_LONG_YEAR
                                     ELSE m - MONTHS_PER_SHORT_YEAR,
                                     year_count + 1)
  ELSE [fault |-> FALSE, year_count |-> year_count, m |-> m, i |-> i]

\* Mutant of YearToMonthSum: every year of the span counts 12 months.
RECURSIVE YearToMonthSum_AllShort(_, _, _)
YearToMonthSum_AllShort(i, y, month_count) ==
  IF i < y
  THEN LET mlong == charToBool(CharAt(m_year_span, i))
       IN  IF mlong.fault THEN [fault |-> TRUE, month_count |-> month_count]
           ELSE YearToMonthSum_AllShort(i + 1, y,
                                        month_count + MONTHS_PER_SHORT_YEAR)
  ELSE [fault |-> FALSE, month_count |-> month_count]

(***************************************************************************)
(* nelsc_cycle_yearToMonth: the loop "for(i = 0; i < y; i++)", lines       *)
(* 432-447.                                                                *)
(***************************************************************************)
RECURSIVE YearToMonthSum(_, _, _)
YearToMonthSum(i, y, month_count) ==
  IF i < y
  THEN LET mlong == charToBool(CharAt(m_year_span, i))
       IN  IF mlong.fault THEN [fault |-> TRUE, month_count |-> month_count]
           ELSE YearToMonthSum(i + 1, y,
                               IF mlong.result
                               THEN month_count + MONTHS_PER_LONG_YEAR
                               ELSE month_count + MONTHS_PER_SHORT_YEAR)
  ELSE [fault |-> FALSE, month_count |-> month_count]

(***************************************************************************)
(* int32_t nelsc_cycle_dayToMonth(int32_t d, int32_t *pOffset)             *)
(***************************************************************************)
nelsc_cycle_dayToMonth(d) ==
  IF (d < NELSC_CYCLE_DAYMIN) \/ (d > NELSC_CYCLE_DAYMAX) THEN Fault
  ELSE LET d1      == d + ABSOLUTE_DAY_OFFSET
           boosted == d1 < 0
           d2      == IF boosted THEN d1 + DAY_UP_BOOST ELSE d1
           mc      == CDiv(d2, DAYS_PER_MONTH_PATTERN) * MONTH_PATTERN_LENGTH
           d3      == CMod(d2, DAYS_PER_MONTH_PATTERN)
           w       == DayToMonthWalk(0, d3, mc)
           mc2     == IF boosted THEN w.month_count - MONTH_UP_SINK
                                 ELSE w.month_count
       IN  IF w.fault THEN Fault
           ELSE [fault |-> FALSE,
                 result |-> mc2 - ABSOLUTE_MONTH_OFFSET,
                 offset |-> w.d]

(***************************************************************************)
(* int32_t nelsc_cycle_monthToDay(int32_t m)                               *)
(***************************************************************************)
nelsc_cycle_monthToDay(m) ==
  IF (m < NELSC_CYCLE_MONMIN) \/ (m > NELSC_CYCLE_MONMAX) THEN Fault
  ELSE LET m1      == m + ABSOLUTE_MONTH_OFFSET
           boosted == m1 < 0
           m2      == IF boosted THEN m1 + MONTH_DOWN_BOOST ELSE m1
           dc      == CDiv(m2, MONTH_PATTERN_LENGTH) * DAYS_PER_MONTH_PATTERN
           m3      == CMod(m2, MONTH_PATTERN_LENGTH)
           s       == MonthToDaySum(0, m3, dc)
           dc2     == IF boosted THEN s.day_count - DAY_DOWN_SINK
                                 ELSE s.day_count
       IN  IF s.fault THEN Fault
           ELSE [fault |-> FALSE, result |-> dc2 - ABSOLUTE_DAY_OFFSET]

\* Mutant of nelsc_cycle_monthToYear: the last month of a 231-year pattern
\* is treated like every other month.
nelsc_cycle_monthToYear_NoForce13(m) ==
  IF (m < NELSC_CYCLE_MONMIN) \/ (m > NELSC_CYCLE_MONMAX) THEN Fault
  ELSE LET m1      == m + ABSOLUTE_MONTH_OFFSET + MONTH_UP_BOOST
           yc1     == CDiv(m1, MONTHS_PER_YEAR_PATTERN) * YEAR_PATTERN_LENGTH
           m2      == CMod(m1, MONTHS_PER_YEAR_PATTERN)
           force13 == FALSE
           yc2     == IF force13 THEN yc1 + (YEAR_PATTERN_LENGTH - 1) ELSE yc1
           m3      == IF force13 THEN 0 ELSE m2
           yc3     == yc2 + (CDiv(m3, MONTHS_PER_YEAR_SPAN) * YEAR_SPAN_LENGTH)
           m4      == CMod(m3, MONTHS_PER_YEAR_SPAN)
           w       == MonthToYearWalk(0, m4, yc3)
       IN  IF w.fault THEN Fault
           ELSE [fault |-> FALSE,
                 result |-> w.year_count - YEAR_UP_SINK,
                 offset |-> IF force13 THEN MONTHS_PER_LONG_YEAR - 1 ELSE w.m]

\* Mutant of nelsc_cycle_monthToYear: the forced thirteenth month is left
\* at offset 0 of its year.
nelsc_cycle_monthToYear_NoForcedOffset(m) ==
  IF (m < NELSC_CYCLE_MONMIN) \/ (m > NELSC_CYCLE_MONMAX) THEN Fault
  ELSE LET m1      == m + ABSOLUTE_MONTH_OFFSET + MONTH_UP_BOOST
           yc1     == CDiv(m1, MONTHS_PER_YEAR_PATTERN) * YEAR_PATTERN_LENGTH
           m2      == CMod(m1, MONTHS_PER_YEAR_PATTERN)
           force13 == m2 = MONTHS_PER_YEAR_PATTERN - 1
           yc2     == IF force13 THEN yc1 + (YEAR_PATTERN_LENGTH - 1) ELSE yc1
           m3      == IF force13 THEN 0 ELSE m2
           yc3     == yc2 + (CDiv(m3, MONTHS_PER_YEAR_SPAN) * YEAR_SPAN_LENGTH)
           m4      == CMod(m3, MONTHS_PER_YEAR_SPAN)
           w       == MonthToYearWalk(0, m4, yc3)
       IN  IF w.fault THEN Fault
           ELSE [fault |-> FALSE,
                 result |-> w.year_count - YEAR_UP_SINK,
                 offset |-> w.m]

(***************************************************************************)
(* int32_t nelsc_cycle_monthToYear(int32_t m, int32_t *pOffset)            *)
(***************************************************************************)
nelsc_cycle_monthToYear(m) ==
  IF (m < NELSC_CYCLE_MONMIN) \/ (m > NELSC_CYCLE_MONMAX) THEN Fault
  ELSE LET m1      == m + ABSOLUTE_MONTH_OFFSET + MONTH_UP_BOOST
           yc1     == CDiv(m1, MONTHS_PER_YEAR_PATTERN) * YEAR_PATTERN_LENGTH
           m2      == CMod(m1, MONTHS_PER_YEAR_PATTERN)
           force13 == m2 = MONTHS_PER_YEAR_PATTERN - 1
           yc2     == IF force13 THEN yc1 + (YEAR_PATTERN_LENGTH - 1) ELSE yc1
           m3      == IF force13 THEN 0 ELSE m2
           yc3     == yc2 + (CDiv(m3, MONTHS_PER_YEAR_SPAN) * YEAR_SPAN_LENGTH)
           m4      == CMod(m3, MONTHS_PER_YEAR_SPAN)
           w       == MonthToYearWalk(0, m4, yc3)
       IN  IF w.fault THEN Fault
           ELSE [fault |-> FALSE,
                 result |-> w.year_count - YEAR_UP_SINK,
                 offset |-> IF force13 THEN MONTHS_PER_LONG_YEAR - 1 ELSE w.m]

(***************************************************************************)
(* int32_t nelsc_cycle_yearToMonth(int32_t y)                              *)
(***************************************************************************)
nelsc_cycle_yearToMonth(y) ==
  IF (y < NELSC_CYCLE_YEARMIN) \/ (y > NELSC_CYCLE_YEARMAX) THEN Fault
  ELSE LET y1  == y + YEAR_DOWN_BOOST
           mc1 == CDiv(y1, YEAR_PATTERN_LENGTH) * MONTHS_PER_YEAR_PATTERN
           y2  == CMod(y1, YEAR_PATTERN_LENGTH)
           mc2 == mc1 + (CDiv(y2, YEAR_SPAN_LENGTH) * MONTHS_PER_YEAR_SPAN)
           y3  == CMod(y2, YEAR_SPAN_LENGTH)
           s   == YearToMonthSum(0, y3, mc2)
       IN  IF s.fault THEN Fault
           ELSE [fault |-> FALSE,
                 result |-> s.month_count - MONTH_DOWN_SINK
                            - ABSOLUTE_MONTH_OFFSET]

(***************************************************************************)
(* The dividends of "/" and "%" in the four conversions, for an argument   *)
(* that passed the parameter check: the re-origined and boosted argument   *)
(* of the first division of each function.                                 *)
(***************************************************************************)
DayToMonthDividend(d) ==
  LET d1 == d + ABSOLUTE_DAY_OFFSET
  IN  IF d1 < 0 THEN d1 + DAY_UP_BOOST ELSE d1

MonthToDayDividend(m) ==
  LET m1 == m + ABSOLUTE_MONTH_OFFSET
  IN  IF m1 < 0 THEN m1 + MONTH_DOWN_BOOST ELSE m1

MonthToYearDividend(m) == m + ABSOLUTE_MONTH_OFFSET + MONTH_UP_BOOST

YearToMonthDividend(y) == y + YEAR_DOWN_BOOST

\* The second dividend of nelsc_cycle_monthToYear: the month within the
\* 231-year pattern, set to zero in the force13 branch.
MonthToYearSpanDividend(m) ==
  LET m2 == CMod(MonthToYearDividend(m), MONTHS_PER_YEAR_PATTERN)
  IN  IF m2 = MONTHS_PER_YEAR_PATTERN - 1 THEN 0 ELSE m2

\* The second dividend of nelsc_cycle_yearToMonth: the year within the
\* 231-year pattern.
YearToMonthSpanDividend(y) ==
  CMod(YearToMonthDividend(y), YEAR_PATTERN_LENGTH)

\* Mutant of nelsc_cycle_isLongMonth: the length of the month is compared
\* with 35 days, so that no month counts as long.
nelsc_cycle_isLongMonth_AboveLong(m) ==
  IF (m < NELSC_CYCLE_MONMIN) \/ (m > NELSC_CYCLE_MONMAX) THEN Fault
  ELSE LET day_begin == nelsc_cycle_monthToDay(m)
           day_next  == IF m < NELSC_CYCLE_MONMAX
                        THEN nelsc_cycle_monthToDay(m + 1)
                        ELSE [fault |-> FALSE,
                              result |-> NELSC_CYCLE_DAYMAX + 1]
       IN  IF day_begin.fault \/ day_next.fault THEN Fault
           ELSE [fault |-> FALSE,
                 result |-> (day_next.result - day_begin.result)
                              > DAYS_PER_LONG_MONTH]

\* Mutant of nelsc_cycle_isLongMonth: a month of 28 days counts as long.
nelsc_cycle_isLongMonth_AtLeast(m) ==
  IF (m < NELSC_CYCLE_MONMIN) \/ (m > NELSC_CYCLE_MONMAX) THEN Fault
  ELSE LET day_begin == nelsc_cycle_monthToDay(m)
           day_next  == IF m < NELSC_CYCLE_MONMAX
                        THEN nelsc_cycle_monthToDay(m + 1)
                        ELSE [fault |-> FALSE,
                              result |-> NELSC_CYCLE_DAYMAX + 1]
       IN  IF day_begin.fault \/ day_next.fault THEN Fault
           ELSE [fault |-> FALSE,
                 result |-> (day_next.result - day_begin.result)
                              >= DAYS_PER_SHORT_MONTH]

(***************************************************************************)
(* bool nelsc_cycle_isLongMonth(int32_t m)                                 *)
(***************************************************************************)
nelsc_cycle_isLongMonth(m) ==
  IF (m < NELSC_CYCLE_MONMIN) \/ (m > NELSC_CYCLE_MONMAX) THEN Fault
  ELSE LET day_begin == nelsc_cycle_monthToDay(m)
           day_next  == IF m < NELSC_CYCLE_MONMAX
                        THEN nelsc_cycle_monthToDay(m + 1)
                        ELSE [fault |-> FALSE,
                              result |-> NELSC_CYCLE_DAYMAX + 1]
       IN  IF day_begin.fault \/ day_next.fault THEN Fault
           ELSE [fault |-> FALSE,
                 result |-> (day_next.result - day_begin.result)
                              > DAYS_PER_SHORT_MONTH]

(***************************************************************************)
(* bool nelsc_cycle_isLongYear(int32_t y)                                  *)
(***************************************************************************)
nelsc_cycle_isLongYear(y) ==
  IF (y < NELSC_CYCLE_YEARMIN) \/ (y > NELSC_CYCLE_YEARMAX) THEN Fault
  ELSE LET month_begin == nelsc_cycle_yearToMonth(y)
           month_next  == IF y < NELSC_CYCLE_YEARMAX
                          THEN nelsc_cycle_yearToMonth(y + 1)
                          ELSE [fault |-> FALSE,
                                result |-> NELSC_CYCLE_MONMAX + 1]
       IN  IF month_begin.fault \/ month_next.fault THEN Fault
           ELSE [fault |-> FALSE,
                 result |-> (month_next.result - month_begin.result)
                              > MONTHS_PER_SHORT_YEAR]


(***************************************************************************)
(* The Gregorian engine as a state machine.                                *)
(*                                                                         *)
(* The arguments are drawn from sets that cover both ends of the range,    *)
(* one whole 400-year cycle day by day, the turn of every quad century,    *)
(* an evenly spaced sample of the rest, and arguments outside the range.   *)
(***************************************************************************)

\* Days and years taken on either side of each boundary.
Pad == 3

\* Distance in days between two offsets of the evenly spaced sample.
Stride == 97

\* Content of an output variable before a call writes to it.
Uninit == {-1}

Around(x) == (x - Pad) .. (x + Pad)

GrOffsets ==
  Around(GRCAL_DAY_MIN) \cup Around(GRCAL_DAY_MAX)
  \cup (QC_DAYS .. (2 * QC_DAYS))
  \cup UNION {Around(k * QC_DAYS) : k \in 1 .. (GRCAL_DAY_MAX \div QC_DAYS)}
  \cup {GRCAL_DAY_MIN + (i * Stride) :
          i \in 0 .. ((GRCAL_DAY_MAX - GRCAL_DAY_MIN) \div Stride)}

\* Years around which every (month, day) combination is tried.
GrPivotYears == {BASE_YEAR, 1582, 1600, 1700, 1900, 2000, 2024, MAX_YEAR}

\* The least and the greatest int32_t.
Int32Ends == {(-2147483647) - 1, 2147483647}

GrYears == UNION {Around(y) : y \in GrPivotYears} \cup Int32Ends

GrMonths == ((1 - Pad) .. (MONTH_COUNT + Pad)) \cup Int32Ends

GrDays == ((1 - Pad) .. (LONG_MONTH_LENGTH + Pad)) \cup Int32Ends

\* The ends of the months are tried for every year of the range and the
\* years just outside it.
GrRangeYears == (1582 - Pad) .. (MAX_YEAR + Pad)

GrEndMonths == 1 .. MONTH_COUNT

GrEndDays == NONLEAP_MONTH_LENGTH .. LONG_MONTH_LENGTH

LeapArgs == ((0 - Pad) .. (MAX_YEAR + Pad)) \cup Int32Ends

NoRet == [fault |-> FALSE, none |-> TRUE]

InitGrcal ==
  /\ pc = "ready"
  /\ ret = NoRet
  /\ \/ /\ call = "grcal_offsetToDate"
        /\ args \in {[offs |-> o] :
                     o \in GrOffsets \cup Around(0) \cup Int32Ends}
     \/ /\ call = "grcal_dateToOffset"
        /\ \/ \E u \in Uninit, y \in GrYears, m \in GrMonths, d \in GrDays :
                args = [mem |-> u, year |-> y, month |-> m, day |-> d]
           \/ \E u \in Uninit, y \in GrRangeYears, m \in GrEndMonths,
                 d \in GrEndDays :
                args = [mem |-> u, year |-> y, month |-> m, day |-> d]
     \/ /\ call = "isLeapYear"
        /\ args \in {[y |-> y] : y \in LeapArgs}

Call_grcal_offsetToDate ==
  /\ pc = "ready"
  /\ call = "grcal_offsetToDate"
  /\ ret' = grcal_offsetToDate(args.offs)
  /\ pc' = "done"
  /\ UNCHANGED <<call, args>>

Call_grcal_dateToOffset ==
  /\ pc = "ready"
  /\ call = "grcal_dateToOffset"
  /\ ret' = grcal_dateToOffset(args.mem, args.year, args.month, args.day)
  /\ pc' = "done"
  /\ UNCHANGED <<call, args>>

Call_isLeapYear ==
  /\ pc = "ready"
  /\ call = "isLeapYear"
  /\ ret' = isLeapYear(args.y)
  /\ pc' = "done"
  /\ UNCHANGED <<call, args>>

NextGrcal ==
  \/ Call_grcal_offsetToDate
  \/ Call_grcal_dateToOffset
  \/ Call_isLeapYear

SpecGrcal == InitGrcal /\ [][NextGrcal]_vars

(***************************************************************************)
(* The proleptic Gregorian calendar, stated independently of the code:     *)
(* January-based, with the day number of a date counted from the years,    *)
(* the leap days and the months before it.                                 *)
(***************************************************************************)
RefLeap(y) == (y % 400 = 0) \/ ((y % 4 = 0) /\ (y % 100 # 0))

RefMonthDays(y, m) ==
  IF m = 2 THEN (IF RefLeap(y) THEN 29 ELSE 28)
  ELSE IF m \in {4, 6, 9, 11} THEN 30 ELSE 31

RefIsDate(y, m, d) ==
  /\ m \in 1 .. 12
  /\ d >= 1
  /\ d <= RefMonthDays(y, m)

RECURSIVE RefDaysBeforeMonth(_, _)
RefDaysBeforeMonth(y, m) ==
  IF m <= 1 THEN 0 ELSE RefDaysBeforeMonth(y, m - 1) + RefMonthDays(y, m - 1)

\* The number of the day (y, m, d), counting 0001-01-01 as day 1.
RefDayNumber(y, m, d) ==
  (365 * (y - 1)) + ((y - 1) \div 4) - ((y - 1) \div 100) + ((y - 1) \div 400)
  + RefDaysBeforeMonth(y, m) + d

\* Days elapsed since 1200-03-01.
RefDaysSinceEpoch(y, m, d) == RefDayNumber(y, m, d) - RefDayNumber(1200, 3, 1)

\* (y1, m1, d1) is not after (y2, m2, d2).
RefNotAfter(y1, m1, d1, y2, m2, d2) ==
  \/ y1 < y2
  \/ (y1 = y2) /\ (m1 < m2)
  \/ (y1 = y2) /\ (m1 = m2) /\ (d1 <= d2)

RefInGregorianRange(y, m, d) ==
  /\ RefNotAfter(1582, 10, 15, y, m, d)
  /\ RefNotAfter(y, m, d, 9999, 12, 31)

InGrRange(o) == (o >= GRCAL_DAY_MIN) /\ (o <= GRCAL_DAY_MAX)

Done(f) == (pc = "done") /\ (call = f)

(***************************************************************************)
(* Claims about the Gregorian engine, checked under SpecGrcal.             *)
(***************************************************************************)

\* C1: for every Gregorian day offset o in 139750..3214073, when
\* grcal_offsetToDate(o) yields (y, m, d), grcal_dateToOffset(y, m, d)
\* returns true and writes exactly o.
C1_OffsetDateOffset ==
  (Done("grcal_offsetToDate") /\ InGrRange(args.offs)) =>
    /\ ~ret.fault
    /\ \A u \in Uninit :
         grcal_dateToOffset(u, ret.year, ret.month, ret.day)
           = [fault |-> FALSE, result |-> TRUE, offs |-> args.offs]

\* C1 happens: a leap day at the end of a quad century was decoded.
C1_Witness ==
  /\ Done("grcal_offsetToDate")
  /\ args.offs = (2 * QC_DAYS) - 1
  /\ ~ret.fault
  /\ ret.month = 2
  /\ ret.day = 29

\* C2: for every triple (y, m, d) on which grcal_dateToOffset returns true
\* with offset o, o lies in 139750..3214073 and grcal_offsetToDate(o)
\* returns exactly (y, m, d); so no two accepted dates share an offset.
C2_DateOffsetDate ==
  (Done("grcal_dateToOffset") /\ ~ret.fault /\ ret.result) =>
    /\ InGrRange(ret.offs)
    /\ grcal_offsetToDate(ret.offs)
         = [fault |-> FALSE, year |-> args.year, month |-> args.month,
            day |-> args.day]

\* C2 happens: a leap day was accepted and given an offset.
C2_Witness ==
  /\ Done("grcal_dateToOffset")
  /\ ret.result
  /\ args.year = 2024
  /\ args.month = 2
  /\ args.day = 29

\* C3: grcal_dateToOffset(y, m, d) returns true if and only if (y, m, d) is
\* a real proleptic Gregorian date between 1582-10-15 and 9999-12-31; the
\* offset written is then the number of days elapsed since 1200-03-01 and
\* lies in 139750..3214073.
C3_DateToOffsetExact ==
  Done("grcal_dateToOffset") =>
    /\ ~ret.fault
    /\ ret.result <=> (/\ RefIsDate(args.year, args.month, args.day)
                       /\ RefInGregorianRange(args.year, args.month, args.day))
    /\ ret.result =>
         /\ ret.offs = RefDaysSinceEpoch(args.year, args.month, args.day)
         /\ InGrRange(ret.offs)

\* C3 happens: the last day of a century year that is no leap year was
\* accepted, past the leap day that year does not have.
C3_Witness ==
  /\ Done("grcal_dateToOffset")
  /\ ret.result
  /\ args.year = 1900
  /\ args.month = 12
  /\ args.day = 31
  /\ ret.offs = RefDaysSinceEpoch(1900, 12, 31)

\* C4: the range boundaries are exact: grcal_offsetToDate(139750) is
\* (1582, 10, 15), grcal_offsetToDate(3214073) is (9999, 12, 31), and
\* grcal_dateToOffset rejects 1582-10-14 and every date in year 10000.
C4_BoundariesExact ==
  /\ (Done("grcal_offsetToDate") /\ (args.offs = GRCAL_DAY_MIN)) =>
       ret = [fault |-> FALSE, year |-> 1582, month |-> 10, day |-> 15]
  /\ (Done("grcal_offsetToDate") /\ (args.offs = GRCAL_DAY_MAX)) =>
       ret = [fault |-> FALSE, year |-> 9999, month |-> 12, day |-> 31]
  /\ (/\ Done("grcal_dateToOffset")
      /\ \/ (args.year = 1582) /\ (args.month = 10) /\ (args.day = 14)
         \/ args.year = 10000) =>
       (~ret.fault /\ ~ret.result)

\* C4 happens: the day before the first Gregorian day was rejected.
C4_Witness ==
  /\ Done("grcal_dateToOffset")
  /\ args.year = 1582
  /\ args.month = 10
  /\ args.day = 14
  /\ ~ret.result

\* C5: for every year y >= 1, isLeapYear(y) is true exactly when y mod 400
\* = 0, or y mod 4 = 0 and y mod 100 # 0 (1600, 2000 and 2024 are leap
\* years, 1700 and 1900 are not); for y < 1 it is a fatal fault.
C5_LeapYearRule ==
  Done("isLeapYear") =>
    /\ (args.y < 1) => ret.fault
    /\ (args.y >= 1) => (~ret.fault /\ (ret.leapyear <=> RefLeap(args.y)))
    /\ (args.y \in {1600, 2000, 2024}) => (~ret.fault /\ ret.leapyear)
    /\ (args.y \in {1700, 1900}) => (~ret.fault /\ ~ret.leapyear)

\* C5 happens: a year divisible by 400 was found to be a leap year.
C5_Witness ==
  /\ Done("isLeapYear")
  /\ args.y = 2000
  /\ ~ret.fault
  /\ ret.leapyear

\* C6: for every year y in 1583..9999, grcal_dateToOffset(y, 2, 29)
\* succeeds if and only if y is a leap year (it fails for 1700 and succeeds
\* for 1600), grcal_dateToOffset(y, 2, 30) always fails, and day 31 is
\* rejected in April, June, September and November.
C6_MonthEndsRejected ==
  (Done("grcal_dateToOffset") /\ (args.year \in 1583 .. 9999)) =>
    /\ ~ret.fault
    /\ ((args.month = 2) /\ (args.day = 29)) =>
         (ret.result <=> RefLeap(args.year))
    /\ ((args.month = 2) /\ (args.day = 29) /\ (args.year = 1700)) =>
         ~ret.result
    /\ ((args.month = 2) /\ (args.day = 29) /\ (args.year = 1600)) =>
         ret.result
    /\ ((args.month = 2) /\ (args.day = 30)) => ~ret.result
    /\ ((args.month \in {4, 6, 9, 11}) /\ (args.day = 31)) => ~ret.result

\* C6 happens: February 29 of a century year that is no leap year was
\* rejected and left the output variable alone.
C6_Witness ==
  /\ Done("grcal_dateToOffset")
  /\ args.year = 1700
  /\ args.month = 2
  /\ args.day = 29
  /\ ~ret.result
  /\ ret.offs = args.mem


(***************************************************************************)
(* The NELSC cycle engine as a state machine: every day, month and year of *)
(* the range, and arguments on either side of it.                          *)
(***************************************************************************)
CycleDays == (NELSC_CYCLE_DAYMIN - Pad) .. (NELSC_CYCLE_DAYMAX + Pad)

CycleMonths == (NELSC_CYCLE_MONMIN - Pad) .. (NELSC_CYCLE_MONMAX + Pad)

CycleYears == (NELSC_CYCLE_YEARMIN - Pad) .. (NELSC_CYCLE_YEARMAX + Pad)

InitCycle ==
  /\ pc = "ready"
  /\ ret = NoRet
  /\ \/ /\ call = "nelsc_cycle_dayToMonth"
        /\ args \in {[d |-> d] : d \in CycleDays \cup Int32Ends}
     \/ /\ call \in {"nelsc_cycle_monthToDay", "nelsc_cycle_monthToYear",
                     "nelsc_cycle_isLongMonth"}
        /\ args \in {[m |-> m] : m \in CycleMonths \cup Int32Ends}
     \/ /\ call \in {"nelsc_cycle_yearToMonth", "nelsc_cycle_isLongYear"}
        /\ args \in {[y |-> y] : y \in CycleYears \cup Int32Ends}

Call_nelsc_cycle_dayToMonth ==
  /\ pc = "ready"
  /\ call = "nelsc_cycle_dayToMonth"
  /\ ret' = nelsc_cycle_dayToMonth(args.d)
  /\ pc' = "done"
  /\ UNCHANGED <<call, args>>

Call_nelsc_cycle_monthToDay ==
  /\ pc = "ready"
  /\ call = "nelsc_cycle_monthToDay"
  /\ ret' = nelsc_cycle_monthToDay(args.m)
  /\ pc' = "done"
  /\ UNCHANGED <<call, args>>

Call_nelsc_cycle_monthToYear ==
  /\ pc = "ready"
  /\ call = "nelsc_cycle_monthToYear"
  /\ ret' = nelsc_cycle_monthToYear(args.m)
  /\ pc' = "done"
  /\ UNCHANGED <<call, args>>

Call_nelsc_cycle_yearToMonth ==
  /\ pc = "ready"
  /\ call = "nelsc_cycle_yearToMonth"
  /\ ret' = nelsc_cycle_yearToMonth(args.y)
  /\ pc' = "done"
  /\ UNCHANGED <<call, args>>

Call_nelsc_cycle_isLongMonth ==
  /\ pc = "ready"
  /\ call = "nelsc_cycle_isLongMonth"
  /\ ret' = nelsc_cycle_isLongMonth(args.m)
  /\ pc' = "done"
  /\ UNCHANGED <<call, args>>

Call_nelsc_cycle_isLongYear ==
  /\ pc = "ready"
  /\ call = "nelsc_cycle_isLongYear"
  /\ ret' = nelsc_cycle_isLongYear(args.y)
  /\ pc' = "done"
  /\ UNCHANGED <<call, args>>

NextCycle ==
  \/ Call_nelsc_cycle_dayToMonth
  \/ Call_nelsc_cycle_monthToDay
  \/ Call_nelsc_cycle_monthToYear
  \/ Call_nelsc_cycle_yearToMonth
  \/ Call_nelsc_cycle_isLongMonth
  \/ Call_nelsc_cycle_isLongYear

SpecCycle == InitCycle /\ [][NextCycle]_vars

(***************************************************************************)
(* The two length predicates of nelsc_cycle.h on their own: one call of    *)
(* nelsc_cycle_isLongMonth or nelsc_cycle_isLongYear.                      *)
(***************************************************************************)
InitLengths ==
  /\ pc = "ready"
  /\ ret = NoRet
  /\ \/ /\ call = "nelsc_cycle_isLongMonth"
        /\ args \in {[m |-> m] : m \in CycleMonths \cup Int32Ends}
     \/ /\ call = "nelsc_cycle_isLongYear"
        /\ args \in {[y |-> y] : y \in CycleYears \cup Int32Ends}

NextLengths ==
  \/ Call_nelsc_cycle_isLongMonth
  \/ Call_nelsc_cycle_isLongYear

SpecLengths == InitLengths /\ [][NextLengths]_vars

(***************************************************************************)
(* The conversions between months and years on their own: one call of      *)
(* nelsc_cycle_monthToYear or nelsc_cycle_yearToMonth.                     *)
(***************************************************************************)
InitYears ==
  /\ pc = "ready"
  /\ ret = NoRet
  /\ \/ /\ call = "nelsc_cycle_monthToYear"
        /\ args \in {[m |-> m] : m \in CycleMonths \cup Int32Ends}
     \/ /\ call = "nelsc_cycle_yearToMonth"
        /\ args \in {[y |-> y] : y \in CycleYears \cup Int32Ends}

NextYears ==
  \/ Call_nelsc_cycle_monthToYear
  \/ Call_nelsc_cycle_yearToMonth

SpecYears == InitYears /\ [][NextYears]_vars

(***************************************************************************)
(* Claims about the NELSC cycle engine, checked under SpecCycle.           *)
(***************************************************************************)
InDayRange(d) == (d >= NELSC_CYCLE_DAYMIN) /\ (d <= NELSC_CYCLE_DAYMAX)

InMonthRange(m) == (m >= NELSC_CYCLE_MONMIN) /\ (m <= NELSC_CYCLE_MONMAX)

InYearRange(y) == (y >= NELSC_CYCLE_YEARMIN) /\ (y <= NELSC_CYCLE_YEARMAX)

\* C7: for every NELSC absolute day d in -35364..175020, when
\* nelsc_cycle_dayToMonth(d) returns month m with day-in-month offset k,
\* m is in -1197..5926 and nelsc_cycle_monthToDay(m) + k = d.
C7_DayMonthDay ==
  (Done("nelsc_cycle_dayToMonth") /\ InDayRange(args.d)) =>
    /\ ~ret.fault
    /\ InMonthRange(ret.result)
    /\ LET first == nelsc_cycle_monthToDay(ret.result)
       IN  ~first.fault /\ (first.result + ret.offset = args.d)

\* C7 happens: a day before year zero (a boosted offset) was decoded to a
\* day inside a month of negative number.
C7_Witness ==
  /\ Done("nelsc_cycle_dayToMonth")
  /\ args.d = -400
  /\ ~ret.fault
  /\ ret.result < -ABSOLUTE_MONTH_OFFSET
  /\ ret.offset > 0

\* C8: for every NELSC absolute month m in -1197..5926,
\* nelsc_cycle_monthToDay(m) is a day in -35364..175020 and
\* nelsc_cycle_dayToMonth of that day returns month m with day-in-month
\* offset 0.
C8_MonthDayMonth ==
  (Done("nelsc_cycle_monthToDay") /\ InMonthRange(args.m)) =>
    /\ ~ret.fault
    /\ InDayRange(ret.result)
    /\ nelsc_cycle_dayToMonth(ret.result)
         = [fault |-> FALSE, result |-> args.m, offset |-> 0]

\* C8 happens: the first day of the month after a long month was computed.
C8_Witness ==
  /\ Done("nelsc_cycle_monthToDay")
  /\ args.m = 3 - ABSOLUTE_MONTH_OFFSET
  /\ ~ret.fault
  /\ ret.result = (2 * DAYS_PER_SHORT_MONTH) + DAYS_PER_LONG_MONTH
                  - ABSOLUTE_DAY_OFFSET

\* C9: for every NELSC absolute month m in -1197..5926, when
\* nelsc_cycle_monthToYear(m) returns year y with month-in-year offset k,
\* y is in -96..479 and nelsc_cycle_yearToMonth(y) + k = m.
C9_MonthYearMonth ==
  (Done("nelsc_cycle_monthToYear") /\ InMonthRange(args.m)) =>
    /\ ~ret.fault
    /\ InYearRange(ret.result)
    /\ LET first == nelsc_cycle_yearToMonth(ret.result)
       IN  ~first.fault /\ (first.result + ret.offset = args.m)

\* C9 happens: the last month of a 231-year pattern was decoded to the
\* thirteenth month of its year.
C9_Witness ==
  /\ Done("nelsc_cycle_monthToYear")
  /\ args.m = (MONTHS_PER_YEAR_PATTERN - 1) - MONTH_UP_BOOST
              - ABSOLUTE_MONTH_OFFSET
  /\ ~ret.fault
  /\ ret.result = (YEAR_PATTERN_LENGTH - 1) - YEAR_UP_SINK
  /\ ret.offset = MONTHS_PER_LONG_YEAR - 1

\* C10: for every NELSC year y in -96..479, nelsc_cycle_yearToMonth(y) is a
\* month in -1197..5926 and nelsc_cycle_monthToYear of that month returns
\* year y with month-in-year offset 0.
C10_YearMonthYear ==
  (Done("nelsc_cycle_yearToMonth") /\ InYearRange(args.y)) =>
    /\ ~ret.fault
    /\ InMonthRange(ret.result)
    /\ nelsc_cycle_monthToYear(ret.result)
         = [fault |-> FALSE, result |-> args.y, offset |-> 0]

\* C10 happens: the first month of the year that follows the forced long
\* year of a 231-year pattern was computed.
C10_Witness ==
  /\ Done("nelsc_cycle_yearToMonth")
  /\ args.y = YEAR_PATTERN_LENGTH - YEAR_UP_SINK
  /\ ~ret.fault
  /\ ret.result = MONTHS_PER_YEAR_PATTERN - MONTH_DOWN_SINK
                  - ABSOLUTE_MONTH_OFFSET

\* C11: the ends of the day, month and year ranges agree with each other.
\* At the bottom, nelsc_cycle_dayToMonth(-35364) is month -1197 at offset 0,
\* nelsc_cycle_monthToDay(-1197) is -35364, nelsc_cycle_yearToMonth(-96) is
\* -1197 and nelsc_cycle_monthToYear(-1197) is year -96 at offset 0.  At the
\* top, nelsc_cycle_monthToDay(5926) <= 175020 and
\* nelsc_cycle_dayToMonth(175020) is month 5926 at the last offset of that
\* month; month 5926 is the thirteenth month (offset 12) of year 479, whose
\* first month is nelsc_cycle_yearToMonth(479).
C11_RangeEndsAgree ==
  /\ (Done("nelsc_cycle_dayToMonth") /\ (args.d = -35364)) =>
       ret = [fault |-> FALSE, result |-> -1197, offset |-> 0]
  /\ (Done("nelsc_cycle_monthToDay") /\ (args.m = -1197)) =>
       ret = [fault |-> FALSE, result |-> -35364]
  /\ (Done("nelsc_cycle_yearToMonth") /\ (args.y = -96)) =>
       ret = [fault |-> FALSE, result |-> -1197]
  /\ (Done("nelsc_cycle_monthToYear") /\ (args.m = -1197)) =>
       ret = [fault |-> FALSE, result |-> -96, offset |-> 0]
  /\ (Done("nelsc_cycle_monthToDay") /\ (args.m = 5926)) =>
       (~ret.fault /\ (ret.result <= 175020))
  /\ (Done("nelsc_cycle_dayToMonth") /\ (args.d = 175020)) =>
       /\ ~ret.fault
       /\ ret.result = 5926
       /\ LET first == nelsc_cycle_monthToDay(5926)
              mlong == charToBool(CharAt(m_month_pattern, (5926 + 10) % 32))
          IN  /\ ~first.fault
              /\ ~mlong.fault
              /\ first.result + ret.offset = 175020
              /\ ret.offset + 1 = (IF mlong.result THEN DAYS_PER_LONG_MONTH
                                                   ELSE DAYS_PER_SHORT_MONTH)
  /\ (Done("nelsc_cycle_monthToYear") /\ (args.m = 5926)) =>
       ret = [fault |-> FALSE, result |-> 479, offset |-> 12]
  /\ (Done("nelsc_cycle_yearToMonth") /\ (args.y = 479)) =>
       (~ret.fault /\ (ret.result + 12 = 5926))

\* C11 happens: the last day of the range was decoded to the last day of
\* the last month.
C11_Witness ==
  /\ Done("nelsc_cycle_dayToMonth")
  /\ args.d = 175020
  /\ ~ret.fault
  /\ ret.result = 5926
  /\ ret.offset = DAYS_PER_LONG_MONTH - 1

(***************************************************************************)
(* base24.c.  A character is its code, an integer in -128..127; a C        *)
(* string is the sequence of its characters, the terminating null          *)
(* character left implicit.                                                *)
(***************************************************************************)
BASE24_PAIR_MIN == -96

BASE24_PAIR_MAX == 479

BASE24_DIGIT_MAX == 23

\* Mutant of UPAIR24_MAX: one pair short of 24 x 24.
UPAIR24_MAX_Short == 576 - 1

UPAIR24_MAX == 576

\* "0123456789ABCDEFGMPRTVXY"
m_base24 ==
  <<48, 49, 50, 51, 52, 53, 54, 55, 56, 57,
    65, 66, 67, 68, 69, 70, 71, 77, 80, 82, 84, 86, 88, 89>>

\* The character str[i]: the terminating null character at index Len(str).
ByteAt(str, i) ==
  IF (i >= 0) /\ (i < Len(str)) THEN str[i + 1]
  ELSE IF i = Len(str) THEN 0
  ELSE "OUTSIDE"

\* toupper() of <ctype.h> in the "C" locale: the small letters a..z become
\* capitals and every other code of a char comes back unchanged.
toupper(c) == IF (c >= 97) /\ (c <= 122) THEN c - 32 ELSE c

\* isspace() of <ctype.h> in the "C" locale.
isspace(c) == (c = 32) \/ ((c >= 9) /\ (c <= 13))

(***************************************************************************)
(* strchr() of <string.h>: the first position of c in str, the terminating *)
(* null character being part of the string; a null pointer if there is     *)
(* none.                                                                   *)
(***************************************************************************)
strchr(str, c) ==
  LET found == {i \in 0 .. Len(str) : ByteAt(str, i) = c}
  IN  IF found = {} THEN [null |-> TRUE]
      ELSE [null |-> FALSE,
            index |-> CHOOSE i \in found : \A j \in found : i <= j]

(***************************************************************************)
(* int32_t base24_digitToInt(char c)                                       *)
(***************************************************************************)
base24_digitToInt(c) ==
  LET found == strchr(m_base24, toupper(c))
  IN  IF found.null THEN -1 ELSE found.index

(***************************************************************************)
(* char base24_intToDigit(int32_t v)                                       *)
(***************************************************************************)
base24_intToDigit(v) ==
  IF (v < 0) \/ (v > BASE24_DIGIT_MAX) THEN Fault
  ELSE [fault |-> FALSE, result |-> ByteAt(m_base24, v)]

(***************************************************************************)
(* bool base24_pairToInt(const char *str, int32_t *pResult)                *)
(* The pair is read at position p of str; mem is what *pResult holds       *)
(* before the call.                                                        *)
(***************************************************************************)
base24_pairToInt(str, p, mem) ==
  IF ByteAt(str, p) = 0
  THEN [fault |-> FALSE, result |-> FALSE, val |-> mem]
  ELSE LET digit_most  == base24_digitToInt(ByteAt(str, p))
           digit_least == base24_digitToInt(ByteAt(str, p + 1))
           val         == (digit_most * 24) + digit_least
       IN  IF (digit_most = -1) \/ (digit_least = -1)
           THEN [fault |-> FALSE, result |-> FALSE, val |-> mem]
           ELSE [fault |-> FALSE, result |-> TRUE,
                 val |-> IF val > BASE24_PAIR_MAX THEN val - UPAIR24_MAX
                                                  ELSE val]

(***************************************************************************)
(* void base24_printPair(FILE *pFile, int32_t v): the characters printed.  *)
(***************************************************************************)
base24_printPair(v) ==
  IF (v < BASE24_PAIR_MIN) \/ (v > BASE24_PAIR_MAX) THEN Fault
  ELSE LET u           == IF v < 0 THEN v + UPAIR24_MAX ELSE v
           digit_least == base24_intToDigit(CMod(u, 24))
           digit_most  == base24_intToDigit(CDiv(u, 24))
       IN  IF digit_most.fault \/ digit_least.fault THEN Fault
           ELSE [fault |-> FALSE,
                 text |-> <<digit_most.result, digit_least.result>>]

(***************************************************************************)
(* The digit functions of base24.h as a state machine: every character,    *)
(* and the digit values with some integers on either side.                 *)
(***************************************************************************)
\* Every value of a char, a signed 8-bit integer.
Base24Chars == (0 - 128) .. 127

Base24Values == (0 - Pad) .. (BASE24_DIGIT_MAX + Pad)

InitBase24 ==
  /\ pc = "ready"
  /\ ret = NoRet
  /\ \/ /\ call = "base24_digitToInt"
        /\ args \in {[c |-> c] : c \in Base24Chars}
     \/ /\ call = "base24_intToDigit"
        /\ args \in {[v |-> v] : v \in Base24Values}

Call_base24_digitToInt ==
  /\ pc = "ready"
  /\ call = "base24_digitToInt"
  /\ ret' = [fault |-> FALSE, result |-> base24_digitToInt(args.c)]
  /\ pc' = "done"
  /\ UNCHANGED <<call, args>>

Call_base24_intToDigit ==
  /\ pc = "ready"
  /\ call = "base24_intToDigit"
  /\ ret' = base24_intToDigit(args.v)
  /\ pc' = "done"
  /\ UNCHANGED <<call, args>>

NextBase24 ==
  \/ Call_base24_digitToInt
  \/ Call_base24_intToDigit

SpecBase24 == InitBase24 /\ [][NextBase24]_vars

(***************************************************************************)
(* The pair functions of base24.h as a state machine: base24_pairToInt on  *)
(* every string of at most two characters, with the variable behind        *)
(* pResult holding some earlier content, and base24_printPair on the pair  *)
(* values with some integers on either side.                               *)
(***************************************************************************)
\* Every character a string can hold before its terminator.
Base24StringChars == Base24Chars \ {0}

\* What the variable behind pResult may hold before the call: a value
\* inside and a value outside the range of a pair.
Base24PairMemory == Uninit \cup {UPAIR24_MAX}

Base24PairValues == Around(BASE24_PAIR_MIN) \cup Around(BASE24_PAIR_MAX)
                    \cup (BASE24_PAIR_MIN .. BASE24_PAIR_MAX) \cup Int32Ends

InitPairs ==
  /\ pc = "ready"
  /\ ret = NoRet
  /\ \/ /\ call = "base24_pairToInt"
        /\ \/ \E u \in Base24PairMemory : args = [str |-> << >>, mem |-> u]
           \/ \E u \in Base24PairMemory, a \in Base24StringChars :
                args = [str |-> <<a>>, mem |-> u]
           \/ \E u \in Base24PairMemory, a \in Base24StringChars,
                 b \in Base24StringChars :
                args = [str |-> <<a, b>>, mem |-> u]
     \/ /\ call = "base24_printPair"
        /\ args \in {[v |-> v] : v \in Base24PairValues}

Call_base24_pairToInt ==
  /\ pc = "ready"
  /\ call = "base24_pairToInt"
  /\ ret' = base24_pairToInt(args.str, 0, args.mem)
  /\ pc' = "done"
  /\ UNCHANGED <<call, args>>

Call_base24_printPair ==
  /\ pc = "ready"
  /\ call = "base24_printPair"
  /\ ret' = base24_printPair(args.v)
  /\ pc' = "done"
  /\ UNCHANGED <<call, args>>

NextPairs ==
  \/ Call_base24_pairToInt
  \/ Call_base24_printPair

SpecPairs == InitPairs /\ [][NextPairs]_vars

(***************************************************************************)
(* The element of a one-element set.  "The({e(x) : x \in {v}})" computes   *)
(* v once and names its value x in e, where "LET x == v IN e(x)" computes  *)
(* v at every occurrence of x.                                             *)
(***************************************************************************)
The(S) == CHOOSE x \in S : TRUE

(***************************************************************************)
(* grcal.c: Gregorian dates as text.  A pointer into a string is the index *)
(* of the character it points at.                                          *)
(***************************************************************************)
STANDARD_DATE_LENGTH == 10

YEAR_FIELD_LENGTH == 4

DAYMONTH_FIELD_MAXLENGTH == 2

\* '-'
DATE_SEPARATOR == 45

(***************************************************************************)
(* static int32_t parseDecimal(char c)                                     *)
(***************************************************************************)
parseDecimal(c) == IF (c >= 48) /\ (c <= 57) THEN c - 48 ELSE -1

(***************************************************************************)
(* The loop "for(x = 0; x < n; x++) if (str[x] == 0) ... break" of         *)
(* parseYear and nelsc_format_scanDate: whether a terminating null         *)
(* character occurs within the n characters at p.                          *)
(***************************************************************************)
RECURSIVE NullWithin(_, _, _, _)
NullWithin(str, p, x, n) ==
  IF x < n
  THEN IF ByteAt(str, p + x) = 0 THEN TRUE ELSE NullWithin(str, p, x + 1, n)
  ELSE FALSE

\* parseYear: the loop that builds the value up digit by digit.
RECURSIVE ParseYearDigits(_, _, _, _)
ParseYearDigits(str, p, x, y) ==
  IF x < YEAR_FIELD_LENGTH
  THEN LET d == parseDecimal(ByteAt(str, p + x))
       IN  IF d = -1 THEN -1 ELSE ParseYearDigits(str, p, x + 1, (y * 10) + d)
  ELSE y

(***************************************************************************)
(* static int32_t parseYear(const char *str)                               *)
(***************************************************************************)
parseYear(str, p) ==
  IF NullWithin(str, p, 0, YEAR_FIELD_LENGTH) THEN -1
  ELSE ParseYearDigits(str, p, 0, 0)

\* parseDayMonth: the loop that counts the decimal digits at q.
RECURSIVE CountDigits(_, _, _)
CountDigits(str, q, digit_count) ==
  IF parseDecimal(ByteAt(str, q)) # -1
  THEN IF digit_count + 1 > DAYMONTH_FIELD_MAXLENGTH
       THEN [result |-> FALSE, digit_count |-> digit_count + 1]
       ELSE CountDigits(str, q + 1, digit_count + 1)
  ELSE [result |-> TRUE, digit_count |-> digit_count]

\* parseDayMonth: the loop that builds the value digit by digit.
RECURSIVE ParseFieldDigits(_, _, _, _, _)
ParseFieldDigits(str, p, x, digit_count, val) ==
  IF x < digit_count
  THEN LET d == parseDecimal(ByteAt(str, p + x))
       IN  IF d = -1 THEN -1
           ELSE ParseFieldDigits(str, p, x + 1, digit_count, (val * 10) + d)
  ELSE val

(***************************************************************************)
(* static int32_t parseDayMonth(const char *str, const char **ppTrail)     *)
(* trail is what *ppTrail holds after the call; it held p before.          *)
(***************************************************************************)
parseDayMonth(str, p) ==
  LET n   == CountDigits(str, p, 0)
      val == ParseFieldDigits(str, p, 0, n.digit_count, 0)
  IN  IF (~n.result) \/ (n.digit_count < 1)
         \/ (n.digit_count > DAYMONTH_FIELD_MAXLENGTH) \/ (val = -1)
      THEN [val |-> -1, trail |-> p]
      ELSE [val |-> val, trail |-> p + n.digit_count]

(***************************************************************************)
(* int32_t grcal_scanDate(const char *str, const char **ppTrail)           *)
(* The date is read at position p; trail is what *ppTrail holds after the  *)
(* call, given that it held p before.                                      *)
(***************************************************************************)
grcal_scanDate(str, p) ==
  LET failed == [fault |-> FALSE, offs |-> -1, trail |-> p]
      p1     == p + YEAR_FIELD_LENGTH
  IN  The({
        IF year = -1 THEN failed
        ELSE IF ByteAt(str, p1) # DATE_SEPARATOR THEN failed
        ELSE The({
          IF month.val = -1 THEN failed
          ELSE IF ByteAt(str, month.trail) # DATE_SEPARATOR THEN failed
          ELSE The({
            IF day.val = -1 THEN failed
            ELSE The({
              IF r.fault THEN Fault
              ELSE IF r.result
              THEN [fault |-> FALSE, offs |-> r.offs, trail |-> day.trail]
              ELSE failed
              : r \in {grcal_dateToOffset(0, year, month.val, day.val)}})
            : day \in {parseDayMonth(str, month.trail + 1)}})
          : month \in {parseDayMonth(str, p1 + 1)}})
        : year \in {parseYear(str, p)}})

(***************************************************************************)
(* fprintf with "%d" and "%0wd" for n >= 0: the decimal digits of n, with  *)
(* zeros in front up to the width w.                                       *)
(***************************************************************************)
RECURSIVE DecimalDigits(_)
DecimalDigits(n) ==
  IF n < 10 THEN <<48 + n>>
  ELSE Append(DecimalDigits(n \div 10), 48 + (n % 10))

RECURSIVE ZeroPadded(_, _)
ZeroPadded(digits, w) ==
  IF Len(digits) < w THEN ZeroPadded(<<48>> \o digits, w) ELSE digits

(***************************************************************************)
(* void grcal_printDate(FILE *pFile, int32_t y, int32_t m, int32_t d):     *)
(* the characters printed.                                                 *)
(***************************************************************************)
grcal_printDate(y, m, d) ==
  The({
    IF valid.fault \/ ~valid.result THEN Fault
    ELSE The({
      IF Len(text) # STANDARD_DATE_LENGTH THEN Fault
      ELSE [fault |-> FALSE, text |-> text]
      : text \in {ZeroPadded(DecimalDigits(y), 4) \o <<45>>
                  \o ZeroPadded(DecimalDigits(m), 2) \o <<45>>
                  \o ZeroPadded(DecimalDigits(d), 2)}})
    : valid \in {grcal_dateToOffset(0, y, m, d)}})

(***************************************************************************)
(* nelsc_format.c: NELSC dates as text, "YY:MW-D" with base-24 digits.     *)
(***************************************************************************)
NELSC_FORMAT_DATE_LENGTH == 7

DAYS_PER_WEEK == 7

\* Mutant of WEEKS_PER_SHORT_MONTH: a short month takes a fifth week.
WEEKS_PER_SHORT_MONTH_Long == 4 + 1

WEEKS_PER_SHORT_MONTH == 4

WEEKS_PER_LONG_MONTH == 5

MONTHDAY_CHARS == 3

DATESEP_YEAR_OFFS == 2

DATESEP_WEEK_OFFS == 5

\* ':'
DATESEP_YEAR == 58

\* '-'
DATESEP_WEEK == 45

DATEFIELD_YEAR == 0

DATEFIELD_MONTH == 3

DATEFIELD_WEEK == 4

DATEFIELD_DAY == 6

(***************************************************************************)
(* void nelsc_format_printDate(FILE *pFile, int32_t y, int32_t m,          *)
(* int32_t d): the characters printed.                                     *)
(***************************************************************************)
nelsc_format_printDate(y, m, d) ==
  IF (y < NELSC_CYCLE_YEARMIN) \/ (y > NELSC_CYCLE_YEARMAX)
     \/ (m < 0) \/ (d < 0)
  THEN Fault
  ELSE The({
    IF ylong.fault THEN Fault
    ELSE IF m >= (IF ylong.result THEN MONTHS_PER_LONG_YEAR
                                  ELSE MONTHS_PER_SHORT_YEAR)
    THEN Fault
    ELSE The({
      IF first.fault THEN Fault
      ELSE The({
        IF mlong.fault THEN Fault
        ELSE IF d >= (IF mlong.result THEN DAYS_PER_LONG_MONTH
                                      ELSE DAYS_PER_SHORT_MONTH)
        THEN Fault
        ELSE The({
          IF year.fault \/ month.fault \/ (Len(monthday) # MONTHDAY_CHARS)
          THEN Fault
          ELSE [fault |-> FALSE,
                text |-> year.text \o <<58, month.result>> \o monthday]
          : year \in {base24_printPair(y)},
            month \in {base24_intToDigit(m + 1)},
            monthday \in {DecimalDigits(CDiv(d, DAYS_PER_WEEK) + 1)
                          \o <<45>>
                          \o DecimalDigits(CMod(d, DAYS_PER_WEEK) + 1)}})
        : mlong \in {nelsc_cycle_isLongMonth(first.result + m)}})
      : first \in {nelsc_cycle_yearToMonth(y)}})
    : ylong \in {nelsc_cycle_isLongYear(y)}})

(***************************************************************************)
(* bool nelsc_format_scanDate(const char *str, int32_t *pOffset)           *)
(* The date is read at position p; mem is what *pOffset holds before the   *)
(* call.                                                                   *)
(***************************************************************************)
nelsc_format_scanDate(str, p, mem) ==
  LET failed == [fault |-> FALSE, result |-> FALSE, offs |-> mem]
  IN  IF NullWithin(str, p, 0, NELSC_FORMAT_DATE_LENGTH) THEN failed
      ELSE IF (ByteAt(str, p + DATESEP_YEAR_OFFS) # DATESEP_YEAR)
              \/ (ByteAt(str, p + DATESEP_WEEK_OFFS) # DATESEP_WEEK)
      THEN failed
      ELSE The({
        IF s_year.fault THEN Fault
        ELSE IF (~s_year.result) \/ (s_month = -1) \/ (s_week = -1)
                \/ (s_day = -1)
        THEN failed
        ELSE The({
          IF first.fault \/ ylong.fault THEN Fault
          ELSE IF (s_month < 1)
                  \/ (s_month > (IF ylong.result THEN MONTHS_PER_LONG_YEAR
                                                 ELSE MONTHS_PER_SHORT_YEAR))
          THEN failed
          ELSE The({
            IF begin.fault \/ mlong.fault THEN Fault
            ELSE IF (s_week < 1)
                    \/ (s_week > (IF mlong.result THEN WEEKS_PER_LONG_MONTH
                                                  ELSE WEEKS_PER_SHORT_MONTH))
            THEN failed
            ELSE IF (s_day < 1) \/ (s_day > DAYS_PER_WEEK) THEN failed
            ELSE [fault |-> FALSE, result |-> TRUE,
                  offs |-> begin.result + ((s_week - 1) * DAYS_PER_WEEK)
                           + (s_day - 1)]
            : begin \in {nelsc_cycle_monthToDay(first.result + (s_month - 1))},
              mlong \in {nelsc_cycle_isLongMonth(
                           first.result + (s_month - 1))}})
          : first \in {nelsc_cycle_yearToMonth(s_year.val)},
            ylong \in {nelsc_cycle_isLongYear(s_year.val)}})
        : s_year  \in {base24_pairToInt(str, p + DATEFIELD_YEAR, 0)},
          s_month \in {base24_digitToInt(ByteAt(str, p + DATEFIELD_MONTH))},
          s_week  \in {base24_digitToInt(ByteAt(str, p + DATEFIELD_WEEK))},
          s_day   \in {base24_digitToInt(ByteAt(str, p + DATEFIELD_DAY))}})

(***************************************************************************)
(* nelsc_format_scanDate as a state machine: one call on a text.  The      *)
(* texts are every year pair with months, weeks and days at and around the *)
(* limits; some years with every digit as month and every decimal digit as *)
(* week and day; characters that are no digits in the year; other          *)
(* separators; and texts cut short or followed by more characters.         *)
(***************************************************************************)
\* 0 1 C D E c d and the slash as the month of the text.
FormatMonthChars == {48, 49, 67, 68, 69, 99, 100, 47}

\* 0 1 4 5 6 as the week of the text.
FormatWeekChars == {48, 49, 52, 53, 54}

\* 0 1 7 8 as the day of the text.
FormatDayChars == {48, 49, 55, 56}

\* The first year, year zero, the last year of a 231-year pattern and the
\* last year.
FormatPivotYears ==
  {NELSC_CYCLE_YEARMIN, 0, (YEAR_PATTERN_LENGTH - 1) - YEAR_UP_SINK,
   NELSC_CYCLE_YEARMAX}

\* The digits of m_base24 in capitals and in small letters.
FormatDigitChars ==
  {m_base24[i] : i \in 1 .. Len(m_base24)}
  \cup {m_base24[i] + 32 : i \in 11 .. Len(m_base24)}

\* Decimal digits, the characters next to them, and A and G.
FormatDecimalChars == (47 .. 58) \cup {65, 71}

\* 0 7 Y y t Z, the space and the colon as the characters of the year.
FormatYearChars == {48, 55, 89, 121, 116, 90, 32, 58}

\* The separators tried in both places.
FormatSeparators == {58, 45, 47, 32}

\* The text "00:11-1".
FormatSampleText == <<48, 48, 58, 49, 49, 45, 49>>

InitFormat ==
  /\ pc = "ready"
  /\ ret = NoRet
  /\ call = "nelsc_format_scanDate"
  /\ \E u \in Uninit :
       \/ \E y \in NELSC_CYCLE_YEARMIN .. NELSC_CYCLE_YEARMAX,
             m \in FormatMonthChars, w \in FormatWeekChars,
             d \in FormatDayChars :
            args = [str |-> base24_printPair(y).text \o <<58, m, w, 45, d>>,
                    mem |-> u]
       \/ \E y \in FormatPivotYears, m \in FormatDigitChars,
             w \in FormatDecimalChars, d \in FormatDecimalChars :
            args = [str |-> base24_printPair(y).text \o <<58, m, w, 45, d>>,
                    mem |-> u]
       \/ \E a \in FormatYearChars, b \in FormatYearChars,
             m \in FormatMonthChars, w \in FormatWeekChars :
            args = [str |-> <<a, b, 58, m, w, 45, 49>>, mem |-> u]
       \/ \E s1 \in FormatSeparators, s2 \in FormatSeparators :
            args = [str |-> <<48, 48, s1, 49, 49, s2, 49>>, mem |-> u]
       \/ \E n \in 0 .. NELSC_FORMAT_DATE_LENGTH :
            args = [str |-> SubSeq(FormatSampleText, 1, n), mem |-> u]
       \/ \E t \in FormatSeparators \cup FormatDayChars :
            args = [str |-> FormatSampleText \o <<t>>, mem |-> u]

Call_nelsc_format_scanDate ==
  /\ pc = "ready"
  /\ call = "nelsc_format_scanDate"
  /\ ret' = nelsc_format_scanDate(args.str, 0, args.mem)
  /\ pc' = "done"
  /\ UNCHANGED <<call, args>>

NextFormat == Call_nelsc_format_scanDate

SpecFormat == InitFormat /\ [][NextFormat]_vars

(***************************************************************************)
(* nelsc.c: the subprograms of the command line.                           *)
(***************************************************************************)
FULLMOON_SHORT_BEGIN == 14

FULLMOON_SHORT_END == 20

FULLMOON_LONG_BEGIN == 21

FULLMOON_LONG_END == 27

\* Mutant of EQUINOX_MONTH: a month that no year has.
EQUINOX_MONTH_Undecimber == 3 + 10

EQUINOX_MONTH == 3

EQUINOX_DAY == 20

(***************************************************************************)
(* static int getCustomCount(int argc)                                     *)
(***************************************************************************)
getCustomCount(argc) ==
  IF argc > 0 THEN [fault |-> FALSE, result |-> argc - 1]
  ELSE IF argc = 0 THEN [fault |-> FALSE, result |-> 0]
  ELSE Fault

(***************************************************************************)
(* dateToOffset: the loop of lines 388-393 that skips the whitespace in    *)
(* front: the first position from p on that holds no whitespace.           *)
(***************************************************************************)
RECURSIVE SkipSpace(_, _)
SkipSpace(str, p) ==
  IF (ByteAt(str, p) # 0) /\ isspace(ByteAt(str, p))
  THEN SkipSpace(str, p + 1)
  ELSE p

(***************************************************************************)
(* dateToOffset: the loop of lines 432-438: whether everything from p on   *)
(* is whitespace.                                                          *)
(***************************************************************************)
RECURSIVE OnlySpace(_, _)
OnlySpace(str, p) ==
  IF ByteAt(str, p) # 0
  THEN IF ~isspace(ByteAt(str, p)) THEN FALSE ELSE OnlySpace(str, p + 1)
  ELSE TRUE

\* Mutant of dateToOffset: the day of a Gregorian date is stored before its
\* range is checked.
dateToOffset_WritesBeforeRange(str, mem) ==
  LET failed == [fault |-> FALSE, result |-> FALSE, offset |-> mem]
  IN  The({
        IF ByteAt(str, p0) = 0 THEN failed
        ELSE The({
          IF n.fault THEN Fault
          ELSE IF n.result
          THEN IF OnlySpace(str, p0 + NELSC_FORMAT_DATE_LENGTH)
               THEN [fault |-> FALSE, result |-> TRUE, offset |-> n.offs]
               ELSE failed
          ELSE The({
            IF g.fault THEN Fault
            ELSE IF g.offs = -1 THEN failed
            ELSE The({
              IF (d < NELSC_CYCLE_DAYMIN) \/ (d > NELSC_CYCLE_DAYMAX)
              THEN [fault |-> FALSE, result |-> FALSE, offset |-> d]
              ELSE IF OnlySpace(str, g.trail)
              THEN [fault |-> FALSE, result |-> TRUE, offset |-> d]
              ELSE failed
              : d \in {g.offs - NELSC_CYCLE_GROFFS}})
            : g \in {grcal_scanDate(str, p0)}})
          : n \in {nelsc_format_scanDate(str, p0, 0)}})
        : p0 \in {SkipSpace(str, 0)}})

(***************************************************************************)
(* static bool dateToOffset(const char *str, int32_t *pOffset)             *)
(* mem is what *pOffset holds before the call.                             *)
(***************************************************************************)
dateToOffset(str, mem) ==
  LET failed == [fault |-> FALSE, result |-> FALSE, offset |-> mem]
  IN  The({
        IF ByteAt(str, p0) = 0 THEN failed
        ELSE The({
          IF n.fault THEN Fault
          ELSE IF n.result
          THEN IF OnlySpace(str, p0 + NELSC_FORMAT_DATE_LENGTH)
               THEN [fault |-> FALSE, result |-> TRUE, offset |-> n.offs]
               ELSE failed
          ELSE The({
            IF g.fault THEN Fault
            ELSE IF g.offs = -1 THEN failed
            ELSE The({
              IF (d < NELSC_CYCLE_DAYMIN) \/ (d > NELSC_CYCLE_DAYMAX)
              THEN failed
              ELSE IF OnlySpace(str, g.trail)
              THEN [fault |-> FALSE, result |-> TRUE, offset |-> d]
              ELSE failed
              : d \in {g.offs - NELSC_CYCLE_GROFFS}})
            : g \in {grcal_scanDate(str, p0)}})
          : n \in {nelsc_format_scanDate(str, p0, 0)}})
        : p0 \in {SkipSpace(str, 0)}})

\* Mutant of printDayInformation: the NELSC day offset is handed to
\* grcal_offsetToDate without the shift NELSC_CYCLE_GROFFS.
printDayInformation_NoShift(day) ==
  IF (day < NELSC_CYCLE_DAYMIN) \/ (day > NELSC_CYCLE_DAYMAX) THEN Fault
  ELSE The({
    IF absolute_month.fault THEN Fault
    ELSE The({
      IF year.fault \/ gr.fault THEN Fault
      ELSE The({
        IF nelsc_date.fault \/ mlong.fault \/ ylong.fault \/ gr_date.fault
        THEN Fault
        ELSE [fault          |-> FALSE,
              day_offset     |-> day,
              absolute_month |-> absolute_month.result,
              nelsc_date     |-> nelsc_date.text,
              month_long     |-> mlong.result,
              year_long      |-> ylong.result,
              gregorian_date |-> gr_date.text]
        : nelsc_date \in {nelsc_format_printDate(year.result, year.offset,
                                                 absolute_month.offset)},
          mlong \in {nelsc_cycle_isLongMonth(absolute_month.result)},
          ylong \in {nelsc_cycle_isLongYear(year.result)},
          gr_date \in {grcal_printDate(gr.year, gr.month, gr.day)}})
      : year \in {nelsc_cycle_monthToYear(absolute_month.result)},
        gr \in {grcal_offsetToDate(day)}})
    : absolute_month \in {nelsc_cycle_dayToMonth(day)}})

(***************************************************************************)
(* static void printDayInformation(int32_t day): the values printed.       *)
(***************************************************************************)
printDayInformation(day) ==
  IF (day < NELSC_CYCLE_DAYMIN) \/ (day > NELSC_CYCLE_DAYMAX) THEN Fault
  ELSE The({
    IF absolute_month.fault THEN Fault
    ELSE The({
      IF year.fault \/ gr.fault THEN Fault
      ELSE The({
        IF nelsc_date.fault \/ mlong.fault \/ ylong.fault \/ gr_date.fault
        THEN Fault
        ELSE [fault          |-> FALSE,
              day_offset     |-> day,
              absolute_month |-> absolute_month.result,
              nelsc_date     |-> nelsc_date.text,
              month_long     |-> mlong.result,
              year_long      |-> ylong.result,
              gregorian_date |-> gr_date.text]
        : nelsc_date \in {nelsc_format_printDate(year.result, year.offset,
                                                 absolute_month.offset)},
          mlong \in {nelsc_cycle_isLongMonth(absolute_month.result)},
          ylong \in {nelsc_cycle_isLongYear(year.result)},
          gr_date \in {grcal_printDate(gr.year, gr.month, gr.day)}})
      : year \in {nelsc_cycle_monthToYear(absolute_month.result)},
        gr \in {grcal_offsetToDate(day + NELSC_CYCLE_GROFFS)}})
    : absolute_month \in {nelsc_cycle_dayToMonth(day)}})

(***************************************************************************)
(* fullMoons: the body of the loop over the months, lines 561-597, from    *)
(* month m on.  lyear is the year of the begin date of the line before, -1 *)
(* at the first line; a line records whether a blank line goes before it.  *)
(***************************************************************************)
RECURSIVE FullMoonLines(_, _, _, _)
FullMoonLines(m, mlast, lyear, lines) ==
  IF m <= mlast
  THEN The({
    IF m_begin.fault \/ mlong.fault THEN Fault
    ELSE The({
      IF b.fault \/ e.fault THEN Fault
      ELSE The({
        IF b_text.fault \/ e_text.fault THEN Fault
        ELSE FullMoonLines(
               m + 1, mlast, b.year,
               Append(lines,
                      [blank |-> (lyear # -1) /\ (lyear # b.year),
                       begin |-> b_text.text,
                       end   |-> e_text.text]))
        : b_text \in {grcal_printDate(b.year, b.month, b.day)},
          e_text \in {grcal_printDate(e.year, e.month, e.day)}})
      : b \in {grcal_offsetToDate(
                 m_begin.result
                 + (IF mlong.result THEN FULLMOON_LONG_BEGIN
                                    ELSE FULLMOON_SHORT_BEGIN)
                 + NELSC_CYCLE_GROFFS)},
        e \in {grcal_offsetToDate(
                 m_begin.result
                 + (IF mlong.result THEN FULLMOON_LONG_END
                                    ELSE FULLMOON_SHORT_END)
                 + NELSC_CYCLE_GROFFS)}})
    : m_begin \in {nelsc_cycle_monthToDay(m)},
      mlong \in {nelsc_cycle_isLongMonth(m)}})
  ELSE [fault |-> FALSE, lines |-> lines]

(***************************************************************************)
(* static void fullMoons(int32_t mfirst, int32_t mlast): the lines printed.*)
(***************************************************************************)
fullMoons(mfirst, mlast) ==
  IF (mfirst < NELSC_CYCLE_MONMIN) \/ (mfirst > NELSC_CYCLE_MONMAX)
     \/ (mlast < NELSC_CYCLE_MONMIN) \/ (mlast > NELSC_CYCLE_MONMAX)
     \/ (mfirst > mlast)
  THEN Fault
  ELSE FullMoonLines(mfirst, mlast, -1, <<>>)

\* What a subprogram returns when it prints an error message.
Failure == [fault |-> FALSE, exit |-> "EXIT_FAILURE"]

(***************************************************************************)
(* static int sub_day(int argc, char *argv[])                              *)
(* day is the long that stringToLong has read from the argument.           *)
(***************************************************************************)
sub_day(argc, day) ==
  LET count == getCustomCount(argc)
  IN  IF count.fault THEN Fault
      ELSE IF count.result # 2 THEN Failure
      ELSE IF (day < NELSC_CYCLE_DAYMIN) \/ (day > NELSC_CYCLE_DAYMAX)
      THEN Failure
      ELSE The({
        IF report.fault THEN Fault
        ELSE [fault |-> FALSE, exit |-> "EXIT_SUCCESS", report |-> report]
        : report \in {printDayInformation(day)}})

(***************************************************************************)
(* static int sub_month(int argc, char *argv[])                            *)
(* month is the long that stringToLong has read from the argument.         *)
(***************************************************************************)
sub_month(argc, month) ==
  LET count == getCustomCount(argc)
  IN  IF count.fault THEN Fault
      ELSE IF count.result # 2 THEN Failure
      ELSE IF (month < NELSC_CYCLE_MONMIN) \/ (month > NELSC_CYCLE_MONMAX)
      THEN Failure
      ELSE The({
        IF first.fault THEN Fault
        ELSE The({
          IF report.fault THEN Fault
          ELSE [fault |-> FALSE, exit |-> "EXIT_SUCCESS", report |-> report]
          : report \in {printDayInformation(first.result)}})
        : first \in {nelsc_cycle_monthToDay(month)}})

(***************************************************************************)
(* static int sub_date(int argc, char *argv[])                             *)
(* arg_date is the second custom argument.                                 *)
(***************************************************************************)
sub_date(argc, arg_date) ==
  LET count == getCustomCount(argc)
  IN  IF count.fault THEN Fault
      ELSE IF count.result # 2 THEN Failure
      ELSE The({
        IF offs.fault THEN Fault
        ELSE IF ~offs.result THEN Failure
        ELSE The({
          IF report.fault THEN Fault
          ELSE [fault |-> FALSE, exit |-> "EXIT_SUCCESS", report |-> report]
          : report \in {printDayInformation(offs.offset)}})
        : offs \in {dateToOffset(arg_date, 0)}})

(***************************************************************************)
(* static int sub_fullmoon(int argc, char *argv[])                         *)
(* month_1 and month_2 are the longs that stringToLong has read from the   *)
(* arguments.                                                              *)
(***************************************************************************)
sub_fullmoon(argc, month_1, month_2) ==
  LET count == getCustomCount(argc)
  IN  IF count.fault THEN Fault
      ELSE IF count.result # 3 THEN Failure
      ELSE IF (month_1 < NELSC_CYCLE_MONMIN) \/ (month_1 > NELSC_CYCLE_MONMAX)
              \/ (month_2 < NELSC_CYCLE_MONMIN)
              \/ (month_2 > NELSC_CYCLE_MONMAX)
      THEN Failure
      ELSE IF month_2 < month_1 THEN Failure
      ELSE The({
        IF moons.fault THEN Fault
        ELSE [fault |-> FALSE, exit |-> "EXIT_SUCCESS",
              lines |-> moons.lines]
        : moons \in {fullMoons(month_1, month_2)}})

(***************************************************************************)
(* sub_newyear: the body of the loop over the years, lines 1445-1532, for  *)
(* year y.  st holds the variables that last from one year to the next.    *)
(***************************************************************************)
NewYearRow(y, st) ==
  The({
    IF year.fault \/ abs_month.fault THEN Fault
    ELSE The({
      IF first.fault THEN Fault
      ELSE The({
        IF gr.fault THEN Fault
        ELSE The({
          IF eq.fault \/ date.fault THEN Fault
          ELSE The({
            IF abs_equinox.fault THEN Fault
            ELSE
              LET year_drift == abs_equinox.result - abs_month.result
                  first_row  == y = NELSC_CYCLE_YEARMIN
                  early == (st.earliest_month = -1)
                           \/ (st.earliest_month > gr.month)
                           \/ ((st.earliest_month = gr.month)
                               /\ (st.earliest_day > gr.day))
                  late  == (st.latest_month = -1)
                           \/ (st.latest_month < gr.month)
                           \/ ((st.latest_month = gr.month)
                               /\ (st.latest_day < gr.day))
              IN  [fault |-> FALSE,
                   y |-> y + 1,
                   blank |-> (~first_row)
                             /\ (CMod(y - NELSC_CYCLE_YEARMIN, 4) = 0),
                   year |-> year.text,
                   date |-> date.text,
                   year_drift |-> year_drift,
                   gr_equinox |-> eq.offs,
                   min_drift |-> IF first_row \/ (year_drift < st.min_drift)
                                 THEN year_drift ELSE st.min_drift,
                   max_drift |-> IF first_row \/ (year_drift > st.max_drift)
                                 THEN year_drift ELSE st.max_drift,
                   earliest_month |-> IF early THEN gr.month
                                               ELSE st.earliest_month,
                   earliest_day |-> IF early THEN gr.day
                                             ELSE st.earliest_day,
                   latest_month |-> IF late THEN gr.month
                                            ELSE st.latest_month,
                   latest_day |-> IF late THEN gr.day ELSE st.latest_day]
            : abs_equinox \in
                {IF y > NELSC_CYCLE_YEARMIN
                 THEN nelsc_cycle_dayToMonth(eq.offs - NELSC_CYCLE_GROFFS)
                 ELSE [fault |-> FALSE, result |-> abs_month.result - 1]}})
          : eq \in {grcal_dateToOffset(st.gr_equinox, gr.year,
                                       EQUINOX_MONTH, EQUINOX_DAY)},
            date \in {grcal_printDate(gr.year, gr.month, gr.day)}})
        : gr \in {grcal_offsetToDate(first.result + NELSC_CYCLE_GROFFS)}})
      : first \in {nelsc_cycle_monthToDay(abs_month.result)}})
    : year \in {base24_printPair(y)},
      abs_month \in {nelsc_cycle_yearToMonth(y)}})

\* sub_newyear: the variables as they are declared, lines 1419-1435.
NewYearStart ==
  [fault |-> FALSE, y |-> NELSC_CYCLE_YEARMIN, blank |-> FALSE,
   year |-> <<>>, date |-> <<>>, year_drift |-> 0, gr_equinox |-> 0,
   min_drift |-> 0, max_drift |-> 0,
   earliest_month |-> -1, earliest_day |-> -1,
   latest_month |-> -1, latest_day |-> -1]

(***************************************************************************)
(* The subprograms as a state machine.  The dates typed are Gregorian      *)
(* dates on both sides of the two ends of the NELSC range, month and day   *)
(* numbers that no month has included, some days of every year across the  *)
(* range, dates written without leading zeros and with whitespace around   *)
(* them, and NELSC dates.                                                  *)
(***************************************************************************)

\* The greatest number of months a full-moon list goes past its first one.
MoonSpan == 1

\* "YYYY-MM-DD", the month and the day at least w characters wide.
GregorianText(y, m, d, w) ==
  ZeroPadded(DecimalDigits(y), 4) \o <<45>>
  \o ZeroPadded(DecimalDigits(m), w) \o <<45>>
  \o ZeroPadded(DecimalDigits(d), w)

\* The NELSC date of day d as nelsc_format_printDate writes it.
NelscText(d) ==
  The({The({nelsc_format_printDate(year.result, year.offset,
                                   month.offset).text
            : year \in {nelsc_cycle_monthToYear(month.result)}})
       : month \in {nelsc_cycle_dayToMonth(d)}})

CliYears == Around(1828) \cup Around(2404) \cup {2024}

CliAllYears == (1828 - Pad) .. (2404 + Pad)

CliSpots == {<<2, 29>>, <<4, 7>>, <<4, 11>>, <<12, 31>>}

CliSpaces == {<<>>, <<32>>, <<9, 32>>}

CliDays ==
  Around(NELSC_CYCLE_DAYMIN) \cup Around(NELSC_CYCLE_DAYMAX)
  \cup {NELSC_CYCLE_DAYMIN + (i * Stride) :
          i \in 0 .. ((NELSC_CYCLE_DAYMAX - NELSC_CYCLE_DAYMIN) \div Stride)}

CliNelscDays == {d \in CliDays : InDayRange(d)}

InitCli ==
  /\ pc = "ready"
  /\ ret = NoRet
  /\ \/ /\ call = "sub_date"
        /\ \/ \E y \in CliYears, m \in 0 .. (MONTH_COUNT + 1),
                 d \in 0 .. (LONG_MONTH_LENGTH + 1) :
                args = [argc |-> 3, kind |-> "gregorian",
                        text |-> GregorianText(y, m, d, 2),
                        year |-> y, month |-> m, day |-> d]
           \/ \E y \in CliAllYears, md \in CliSpots :
                args = [argc |-> 3, kind |-> "gregorian",
                        text |-> GregorianText(y, md[1], md[2], 2),
                        year |-> y, month |-> md[1], day |-> md[2]]
           \/ \E y \in {1828, 2404}, d \in 1 .. 12,
                 lead \in CliSpaces, trail \in CliSpaces :
                args = [argc |-> 3, kind |-> "gregorian",
                        text |-> lead \o GregorianText(y, 4, d, 1) \o trail,
                        year |-> y, month |-> 4, day |-> d]
           \/ \E n \in 0 .. 4 :
                args = [argc |-> n, kind |-> "gregorian",
                        text |-> GregorianText(2024, 2, 29, 2),
                        year |-> 2024, month |-> 2, day |-> 29]
           \/ \E d \in CliNelscDays :
                args = [argc |-> 3, kind |-> "nelsc",
                        text |-> NelscText(d), nelsc_day |-> d]
     \/ /\ call = "sub_day"
        /\ \/ \E d \in CliDays : args = [argc |-> 3, day |-> d]
           \/ \E n \in 0 .. 4 : args = [argc |-> n, day |-> 0]
     \/ /\ call = "sub_month"
        /\ \/ \E m \in CycleMonths : args = [argc |-> 3, month |-> m]
           \/ \E n \in 0 .. 4 : args = [argc |-> n, month |-> 0]
     \/ /\ call = "sub_fullmoon"
        /\ \/ \E m1 \in CycleMonths, k \in (0 - 1) .. MoonSpan :
                args = [argc |-> 4, month_1 |-> m1, month_2 |-> m1 + k]
           \/ \E n \in 0 .. 4 :
                args = [argc |-> n, month_1 |-> 0, month_2 |-> 0]
     \/ /\ call = "sub_newyear"
        /\ \E n \in (0 - 1) .. 4 : args = [argc |-> n]

Call_sub_date ==
  /\ pc = "ready"
  /\ call = "sub_date"
  /\ ret' = sub_date(args.argc, args.text)
  /\ pc' = "done"
  /\ UNCHANGED <<call, args>>

Call_sub_day ==
  /\ pc = "ready"
  /\ call = "sub_day"
  /\ ret' = sub_day(args.argc, args.day)
  /\ pc' = "done"
  /\ UNCHANGED <<call, args>>

Call_sub_month ==
  /\ pc = "ready"
  /\ call = "sub_month"
  /\ ret' = sub_month(args.argc, args.month)
  /\ pc' = "done"
  /\ UNCHANGED <<call, args>>

Call_sub_fullmoon ==
  /\ pc = "ready"
  /\ call = "sub_fullmoon"
  /\ ret' = sub_fullmoon(args.argc, args.month_1, args.month_2)
  /\ pc' = "done"
  /\ UNCHANGED <<call, args>>

\* sub_newyear up to its loop: the number of arguments is checked.
Begin_sub_newyear ==
  /\ pc = "ready"
  /\ call = "sub_newyear"
  /\ LET count == getCustomCount(args.argc)
     IN  IF count.fault THEN (ret' = Fault) /\ (pc' = "done")
         ELSE IF count.result # 1 THEN (ret' = Failure) /\ (pc' = "done")
         ELSE (ret' = NewYearStart) /\ (pc' = "loop")
  /\ UNCHANGED <<call, args>>

\* sub_newyear: one turn of the loop, the row of year ret.y.
Row_sub_newyear ==
  /\ pc = "loop"
  /\ call = "sub_newyear"
  /\ ret.y <= NELSC_CYCLE_YEARMAX
  /\ ret' = NewYearRow(ret.y, ret)
  /\ pc' = IF ret'.fault THEN "done" ELSE "loop"
  /\ UNCHANGED <<call, args>>

\* sub_newyear after its loop: the two ranges are printed.
End_sub_newyear ==
  /\ pc = "loop"
  /\ call = "sub_newyear"
  /\ ret.y > NELSC_CYCLE_YEARMAX
  /\ ret' = [fault |-> FALSE, exit |-> "EXIT_SUCCESS",
             earliest_month |-> ret.earliest_month,
             earliest_day |-> ret.earliest_day,
             latest_month |-> ret.latest_month,
             latest_day |-> ret.latest_day,
             min_drift |-> ret.min_drift,
             max_drift |-> ret.max_drift]
  /\ pc' = "done"
  /\ UNCHANGED <<call, args>>

NextCli ==
  \/ Call_sub_date
  \/ Call_sub_day
  \/ Call_sub_month
  \/ Call_sub_fullmoon
  \/ Begin_sub_newyear
  \/ Row_sub_newyear
  \/ End_sub_newyear

SpecCli == InitCli /\ [][NextCli]_vars

(***************************************************************************)
(* The report of a day on its own: one call of printDayInformation with a  *)
(* day of the NELSC range, as every caller passes it, or one run of the    *)
(* day, month or date subprogram, which validate their argument and then   *)
(* call it.  The days are the first and the last day of every month, the   *)
(* ends of the range and the days of the command line.                     *)
(***************************************************************************)
InitDayInfo ==
  \/ /\ pc = "ready"
     /\ ret = NoRet
     /\ call = "printDayInformation"
     /\ \/ \E m \in NELSC_CYCLE_MONMIN .. NELSC_CYCLE_MONMAX :
             \/ args = [day |-> nelsc_cycle_monthToDay(m).result]
             \/ /\ m > NELSC_CYCLE_MONMIN
                /\ args = [day |-> nelsc_cycle_monthToDay(m).result - 1]
        \/ args \in {[day |-> d] : d \in CliNelscDays}
  \/ /\ InitCli
     /\ call \in {"sub_day", "sub_month", "sub_date"}

Call_printDayInformation ==
  /\ pc = "ready"
  /\ call = "printDayInformation"
  /\ ret' = printDayInformation(args.day)
  /\ pc' = "done"
  /\ UNCHANGED <<call, args>>

NextDayInfo ==
  \/ Call_printDayInformation
  \/ Call_sub_day
  \/ Call_sub_month
  \/ Call_sub_date

SpecDayInfo == InitDayInfo /\ [][NextDayInfo]_vars

(***************************************************************************)
(* The newyear report on its own: sub_newyear with the numbers of          *)
(* arguments of the command line.                                          *)
(***************************************************************************)
InitNewYear ==
  /\ InitCli
  /\ call = "sub_newyear"

NextNewYear ==
  \/ Begin_sub_newyear
  \/ Row_sub_newyear
  \/ End_sub_newyear

SpecNewYear == InitNewYear /\ [][NextNewYear]_vars

(***************************************************************************)
(* The two readers of a date and dateToOffset on the same texts.  A text   *)
(* is whitespace or nothing, then seven characters drawn place by place    *)
(* from what a NELSC date and what a Gregorian date has at that place,     *)
(* then an ending: among them are NELSC dates, Gregorian dates with and    *)
(* without leading zeros, and every mixture of the two.                    *)
(***************************************************************************)
\* '1' '2'
ScanChars0 == {49, 50}

\* '0' '8'
ScanChars1 == {48, 56}

\* ':' '2' '9'
ScanChars2 == {58, 50, 57}

\* '1' '8'
ScanChars3 == {49, 56}

\* '-' '1' '5'
ScanChars4 == {45, 49, 53}

\* '-' '0' '1'
ScanChars5 == {45, 48, 49}

\* '1' '4' '8' '-'
ScanChars6 == {49, 52, 56, 45}

\* nothing, "-07", "-31", "7", " ", ":", " 1"
ScanEndings ==
  {<<>>, <<45, 48, 55>>, <<45, 51, 49>>, <<55>>, <<32>>, <<58>>, <<32, 49>>}

\* nothing, " ", tab and space
ScanBeginnings == {<<>>, <<32>>, <<9, 32>>}

\* What *pOffset holds before dateToOffset is called.
ScanMemory == {0, NELSC_CYCLE_DAYMAX + 1}

ScanTexts ==
  {<<c0, c1, c2, c3, c4, c5, c6>> \o e :
     c0 \in ScanChars0, c1 \in ScanChars1, c2 \in ScanChars2,
     c3 \in ScanChars3, c4 \in ScanChars4, c5 \in ScanChars5,
     c6 \in ScanChars6, e \in ScanEndings}

InitScan ==
  /\ pc = "ready"
  /\ ret = NoRet
  /\ \/ /\ call = "dateToOffset"
        /\ \E b \in ScanBeginnings, t \in ScanTexts, u \in ScanMemory :
             args = [str |-> b \o t, mem |-> u]
     \/ /\ call = "dateToOffset"
        /\ \E b \in ScanBeginnings, n \in 0 .. (NELSC_FORMAT_DATE_LENGTH - 1),
              t \in ScanTexts, u \in ScanMemory :
             args = [str |-> b \o SubSeq(t, 1, n), mem |-> u]
     \/ /\ call \in {"grcal_scanDate", "nelsc_format_scanDate"}
        /\ \E t \in ScanTexts, u \in ScanMemory :
             args = [str |-> t, mem |-> u]

Call_dateToOffset ==
  /\ pc = "ready"
  /\ call = "dateToOffset"
  /\ ret' = dateToOffset(args.str, args.mem)
  /\ pc' = "done"
  /\ UNCHANGED <<call, args>>

Call_grcal_scanDate ==
  /\ pc = "ready"
  /\ call = "grcal_scanDate"
  /\ ret' = grcal_scanDate(args.str, 0)
  /\ pc' = "done"
  /\ UNCHANGED <<call, args>>

NextScan ==
  \/ Call_dateToOffset
  \/ Call_grcal_scanDate
  \/ Call_nelsc_format_scanDate

SpecScan == InitScan /\ [][NextScan]_vars

(***************************************************************************)
(* Claims about the subprograms, checked under SpecCli.                    *)
(***************************************************************************)
Succeeded(f) == Done(f) /\ ~ret.fault /\ (ret.exit = "EXIT_SUCCESS")

\* The Gregorian date of NELSC day d, as text, by the fixed shift.
ShiftedDateText(d) ==
  LET r == grcal_offsetToDate(d + 264773)
  IN  GregorianText(r.year, r.month, r.day, 2)

\* C12: NELSC days are translated to Gregorian offsets by the fixed shift
\* Gregorian offset = NELSC day + 264773 in every place the program
\* converts: the day, month and date reports, the full-moon list, the
\* new-year chart and a Gregorian date typed by the user.  The ends of the
\* NELSC range, -35364 and 175020, decode through grcal_offsetToDate to
\* 1828-04-07 and 2404-04-11, and the date command accepts a Gregorian date
\* if and only if it is a date from 1828-04-07 to 2404-04-11.
C12_FixedShift ==
  /\ (Succeeded("sub_day") \/ Succeeded("sub_month") \/ Succeeded("sub_date"))
       => (ret.report.gregorian_date = ShiftedDateText(ret.report.day_offset))
  /\ Succeeded("sub_fullmoon") =>
       \A i \in DOMAIN ret.lines :
         LET m     == args.month_1 + (i - 1)
             first == nelsc_cycle_monthToDay(m).result
             mlong == nelsc_cycle_isLongMonth(m).result
         IN  /\ ret.lines[i].begin
                  = ShiftedDateText(first + (IF mlong THEN 21 ELSE 14))
             /\ ret.lines[i].end
                  = ShiftedDateText(first + (IF mlong THEN 27 ELSE 20))
  /\ ((call = "sub_newyear") /\ (pc = "loop")
        /\ (ret.y > NELSC_CYCLE_YEARMIN)) =>
       LET first == nelsc_cycle_yearToMonth(ret.y - 1).result
       IN  ret.date = ShiftedDateText(nelsc_cycle_monthToDay(first).result)
  /\ (Done("sub_day") /\ (args.argc = 3) /\ (args.day = -35364)) =>
       /\ Succeeded("sub_day")
       /\ ret.report.gregorian_date = GregorianText(1828, 4, 7, 2)
       /\ grcal_offsetToDate(-35364 + 264773)
            = [fault |-> FALSE, year |-> 1828, month |-> 4, day |-> 7]
  /\ (Done("sub_day") /\ (args.argc = 3) /\ (args.day = 175020)) =>
       /\ Succeeded("sub_day")
       /\ ret.report.gregorian_date = GregorianText(2404, 4, 11, 2)
       /\ grcal_offsetToDate(175020 + 264773)
            = [fault |-> FALSE, year |-> 2404, month |-> 4, day |-> 11]
  /\ (Done("sub_date") /\ (args.argc = 3) /\ (args.kind = "gregorian")) =>
       /\ ~ret.fault
       /\ (ret.exit = "EXIT_SUCCESS")
            <=> (/\ RefIsDate(args.year, args.month, args.day)
                 /\ RefNotAfter(1828, 4, 7, args.year, args.month, args.day)
                 /\ RefNotAfter(args.year, args.month, args.day, 2404, 4, 11))
       /\ (ret.exit = "EXIT_SUCCESS") =>
            (ret.report.day_offset + 264773
               = RefDaysSinceEpoch(args.year, args.month, args.day))

\* C12 happens: the date command was given the last Gregorian day of the
\* range, written without leading zeros, and reported the last NELSC day.
C12_Witness ==
  /\ Succeeded("sub_date")
  /\ args.text = GregorianText(2404, 4, 11, 1)
  /\ ret.report.day_offset = 175020
  /\ ret.report.gregorian_date = GregorianText(2404, 4, 11, 2)

(***************************************************************************)
(* The two engines side by side.                                           *)
(***************************************************************************)
Init == InitGrcal \/ InitCycle

Next == NextGrcal \/ NextCycle

Spec == Init /\ [][Next]_vars

(***************************************************************************)
(* Claims about both engines, checked under Spec.                          *)
(***************************************************************************)

\* (a1, a2) is not after (b1, b2).
PairNotAfter(a1, a2, b1, b2) == (a1 < b1) \/ ((a1 = b1) /\ (a2 <= b2))

\* C13: the decoded results never go backwards: for offsets a < b of the
\* valid range, grcal_offsetToDate(a) is not after grcal_offsetToDate(b) in
\* the order of (year, month, day), nelsc_cycle_dayToMonth(a) is not after
\* nelsc_cycle_dayToMonth(b) in the order of (month, day in month), and
\* nelsc_cycle_monthToYear(a) is not after nelsc_cycle_monthToYear(b) in
\* the order of (year, month in year).  Every day and every month of the
\* NELSC range is compared with the next one; a Gregorian offset is
\* compared with the next one, with the one a stride later and with the
\* last one.
C13_NeverBackwards ==
  /\ (Done("grcal_offsetToDate") /\ InGrRange(args.offs)) =>
       \A b \in {args.offs + 1, args.offs + Stride, GRCAL_DAY_MAX} :
         ((args.offs < b) /\ InGrRange(b)) =>
           LET later == grcal_offsetToDate(b)
           IN  /\ ~ret.fault
               /\ ~later.fault
               /\ RefNotAfter(ret.year, ret.month, ret.day,
                              later.year, later.month, later.day)
  /\ (Done("nelsc_cycle_dayToMonth") /\ InDayRange(args.d)
        /\ InDayRange(args.d + 1)) =>
       LET later == nelsc_cycle_dayToMonth(args.d + 1)
       IN  /\ ~ret.fault
           /\ ~later.fault
           /\ PairNotAfter(ret.result, ret.offset, later.result, later.offset)
  /\ (Done("nelsc_cycle_monthToYear") /\ InMonthRange(args.m)
        /\ InMonthRange(args.m + 1)) =>
       LET later == nelsc_cycle_monthToYear(args.m + 1)
       IN  /\ ~ret.fault
           /\ ~later.fault
           /\ PairNotAfter(ret.result, ret.offset, later.result, later.offset)

\* C13 happens: the last month but one of a 231-year pattern was decoded,
\* the month before the forced thirteenth month of the same year.
C13_Witness ==
  /\ Done("nelsc_cycle_monthToYear")
  /\ args.m = (MONTHS_PER_YEAR_PATTERN - 2) - MONTH_UP_BOOST
              - ABSOLUTE_MONTH_OFFSET
  /\ ~ret.fault
  /\ ret.offset = MONTHS_PER_SHORT_YEAR - 1
  /\ nelsc_cycle_monthToYear(args.m + 1).result = ret.result

\* C16: grcal_dateToOffset is total over all int32 triples and reports an
\* invalid date as an ordinary result.  For any (year, month, dayofmonth)
\* it returns without reaching a fault, so isLeapYear is never called with
\* a year below 1 and monthLength never with an index outside 0..11, and
\* whenever it returns false the variable behind pOffs is left unchanged.
C16_DateToOffsetTotal ==
  Done("grcal_dateToOffset") =>
    /\ ~ret.fault
    /\ ret.result \in BOOLEAN
    /\ (~ret.result) => (ret.offs = args.mem)
    /\ ((args.year > BASE_YEAR) /\ (args.year <= MAX_YEAR)
         /\ (args.month >= 1) /\ (args.month <= MONTH_COUNT)
         /\ (args.day >= 1)) =>
         LET mr == args.month - 1 - MONTH_OFFSET
             mm == IF mr < 0 THEN mr + MONTH_COUNT ELSE mr
             my == IF mr < 0 THEN args.year - 1 ELSE args.year
         IN  /\ mm \in 0 .. 11
             /\ ~monthLength(mm).fault
             /\ my + 1 >= 1
             /\ ~isLeapYear(my + 1).fault

\* C16 happens: 1582-10-14, a real day one day before the range, passed
\* every check but the last and was rejected with nothing written.
C16_Witness ==
  /\ Done("grcal_dateToOffset")
  /\ args.year = 1582
  /\ args.month = 10
  /\ args.day = 14
  /\ ~ret.fault
  /\ ~ret.result
  /\ ret.offs = args.mem

\* The number of days of month m, from the first days of m and of m + 1;
\* the month after the last one would start on the day after the last day.
MonthSpan(m) ==
  (IF m < 5926 THEN nelsc_cycle_monthToDay(m + 1).result ELSE 175020 + 1)
  - nelsc_cycle_monthToDay(m).result

\* The number of months of year y, from the first months of y and of y + 1;
\* the year after the last one would start on the month after the last
\* month.
YearSpan(y) ==
  (IF y < 479 THEN nelsc_cycle_yearToMonth(y + 1).result ELSE 5926 + 1)
  - nelsc_cycle_yearToMonth(y).result

\* C17: for every month m of the range nelsc_cycle_isLongMonth(m) is true
\* exactly when the month spans 35 days and false exactly when it spans 28
\* days; no month has another length; and the result is the entry of
\* m_month_pattern at index (m + 10) mod 32, with the floor modulo.
C17_LongMonthExact ==
  (Done("nelsc_cycle_isLongMonth") /\ (args.m >= -1197) /\ (args.m <= 5926))
  =>
    /\ ~ret.fault
    /\ MonthSpan(args.m) \in {28, 35}
    /\ ret.result <=> (MonthSpan(args.m) = 35)
    /\ (~ret.result) <=> (MonthSpan(args.m) = 28)
    /\ ret.result <=> (m_month_pattern[((args.m + 10) % 32) + 1] = "L")
    /\ (~ret.result) <=> (m_month_pattern[((args.m + 10) % 32) + 1] = "S")

\* C17 happens: the last month, the one without a next month, was found
\* long; it is at index 16 of the pattern.
C17_Witness ==
  /\ Done("nelsc_cycle_isLongMonth")
  /\ args.m = 5926
  /\ ~ret.fault
  /\ ret.result
  /\ MonthSpan(args.m) = 35
  /\ (args.m + 10) % 32 = 16

\* C18: for every year y of -96..479 nelsc_cycle_isLongYear(y) is true
\* exactly when the year has 13 months and false exactly when it has 12;
\* the result is the entry of m_year_span at index ((y + 121) mod 231)
\* mod 11, except that the last year of each 231-year pattern, where
\* (y + 121) mod 231 = 230, the years 109 and 340, is long although its
\* span entry is "S"; every other year at span position 10 is short.
C18_LongYearExact ==
  (Done("nelsc_cycle_isLongYear") /\ (args.y >= -96) /\ (args.y <= 479))
  =>
    LET pos   == (args.y + 121) % 231
        entry == m_year_span[(pos % 11) + 1]
    IN  /\ ~ret.fault
        /\ YearSpan(args.y) \in {12, 13}
        /\ ret.result <=> (YearSpan(args.y) = 13)
        /\ (~ret.result) <=> (YearSpan(args.y) = 12)
        /\ (pos # 230) => (ret.result <=> (entry = "L"))
        /\ (pos # 230) => ((~ret.result) <=> (entry = "S"))
        /\ (pos = 230) => (ret.result /\ (entry = "S") /\ (pos % 11 = 10))
        /\ (pos = 230) <=> (args.y \in {109, 340})
        /\ ((pos % 11 = 10) /\ (pos # 230)) => ~ret.result

\* C18 happens: year 109, the last year of a 231-year pattern, was found
\* long at span position 10.
C18_Witness ==
  /\ Done("nelsc_cycle_isLongYear")
  /\ args.y = 109
  /\ ~ret.fault
  /\ ret.result
  /\ YearSpan(args.y) = 13
  /\ ((args.y + 121) % 231) % 11 = 10
  /\ m_year_span[10 + 1] = "S"

\* C19: nelsc_cycle_dayToMonth writes an offset in 0..27 when the month it
\* returns is short and in 0..34 when it is long; nelsc_cycle_monthToYear
\* writes an offset in 0..11 when the year it returns is short and in
\* 0..12 when it is long.
C19_OffsetWithinLength ==
  /\ (Done("nelsc_cycle_dayToMonth") /\ InDayRange(args.d)) =>
       /\ ~ret.fault
       /\ LET mlong == nelsc_cycle_isLongMonth(ret.result)
          IN  /\ ~mlong.fault
              /\ mlong.result => (ret.offset \in 0 .. 34)
              /\ (~mlong.result) => (ret.offset \in 0 .. 27)
  /\ (Done("nelsc_cycle_monthToYear") /\ InMonthRange(args.m)) =>
       /\ ~ret.fault
       /\ LET ylong == nelsc_cycle_isLongYear(ret.result)
          IN  /\ ~ylong.fault
              /\ ylong.result => (ret.offset \in 0 .. 12)
              /\ (~ylong.result) => (ret.offset \in 0 .. 11)

\* C19 happens: the last day of a short month was decoded, the day before
\* the first day of the next month.
C19_Witness ==
  /\ Done("nelsc_cycle_dayToMonth")
  /\ InDayRange(args.d + 1)
  /\ ~ret.fault
  /\ ret.offset = 27
  /\ ~nelsc_cycle_isLongMonth(ret.result).result
  /\ nelsc_cycle_dayToMonth(args.d + 1).offset = 0

\* C24: every conversion terminates without fault on every argument of its
\* range, and its pattern walk is bounded by the table.  The walk of
\* nelsc_cycle_dayToMonth and nelsc_cycle_monthToDay visits at most 32
\* entries of m_month_pattern, the walk of nelsc_cycle_monthToYear and
\* nelsc_cycle_yearToMonth at most 11 entries of m_year_span, and the
\* month walk of grcal_offsetToDate at most 12 entries of m_pattern.  No
\* walk reads the terminating null character or beyond, so charToBool and
\* monthLength never reach abort().
C24_WalksBounded ==
  /\ Len(m_month_pattern) = 32
  /\ Len(m_year_span) = 11
  /\ Len(m_pattern) = 12
  /\ (Done("grcal_offsetToDate") /\ InGrRange(args.offs)) =>
       LET w == GrMonthWalk(0, GrLeapDayAdjust(GrDecompose(args.offs)).d, 0)
       IN  /\ ~ret.fault
           /\ ~w.fault
           /\ w.steps <= 12
           /\ w.month \in 0 .. 11
  /\ (Done("nelsc_cycle_dayToMonth") /\ InDayRange(args.d)) =>
       LET w == DayToMonthWalk(
                  0, CMod(DayToMonthDividend(args.d), DAYS_PER_MONTH_PATTERN),
                  0)
       IN  /\ ~ret.fault
           /\ ~w.fault
           /\ w.i \in 0 .. 31
           /\ w.month_count = w.i
           /\ ret.offset = w.d
  /\ (Done("nelsc_cycle_monthToDay") /\ InMonthRange(args.m)) =>
       /\ ~ret.fault
       /\ CMod(MonthToDayDividend(args.m), MONTH_PATTERN_LENGTH) \in 0 .. 31
  /\ (Done("nelsc_cycle_monthToYear") /\ InMonthRange(args.m)) =>
       LET w == MonthToYearWalk(
                  0, CMod(MonthToYearSpanDividend(args.m),
                          MONTHS_PER_YEAR_SPAN),
                  0)
       IN  /\ ~ret.fault
           /\ ~w.fault
           /\ w.i \in 0 .. 10
           /\ w.year_count = w.i
  /\ (Done("nelsc_cycle_yearToMonth") /\ InYearRange(args.y)) =>
       /\ ~ret.fault
       /\ CMod(YearToMonthSpanDividend(args.y), YEAR_SPAN_LENGTH) \in 0 .. 10
  /\ ((Done("nelsc_cycle_isLongMonth") /\ InMonthRange(args.m))
        \/ (Done("nelsc_cycle_isLongYear") /\ InYearRange(args.y))) =>
       ~ret.fault

\* C24 happens: a day of the last month of the 32-month pattern was decoded
\* and the walk stopped on the last entry of m_month_pattern.
C24_Witness ==
  /\ Done("nelsc_cycle_dayToMonth")
  /\ InDayRange(args.d)
  /\ ~ret.fault
  /\ ret.offset = DAYS_PER_SHORT_MONTH - 1
  /\ DayToMonthWalk(
       0, CMod(DayToMonthDividend(args.d), DAYS_PER_MONTH_PATTERN), 0).i
       = MONTH_PATTERN_LENGTH - 1

\* C25: the bias arithmetic is equivalent to floor division.  For every
\* argument of the range every dividend of "/" and "%" in
\* nelsc_cycle_dayToMonth, nelsc_cycle_monthToDay, nelsc_cycle_monthToYear
\* and nelsc_cycle_yearToMonth is non-negative at the point of division,
\* the boosts of 35910 days, 1216 months, 1496 months and 121 years being
\* large enough for the whole range, and the result of each function is
\* the one computed without bias by floor division and non-negative
\* modulo of the re-origined argument by the period: 945 days, 32 months,
\* 2857 months, 231 years.
C25_BiasIsFloorDivision ==
  /\ (Done("nelsc_cycle_dayToMonth") /\ InDayRange(args.d)) =>
       LET x == args.d + 308
           w == DayToMonthWalk(0, x % 945, (x \div 945) * 32)
       IN  /\ DayToMonthDividend(args.d) >= 0
           /\ ~ret.fault
           /\ ret.result = w.month_count - 10
           /\ ret.offset = w.d
  /\ (Done("nelsc_cycle_monthToDay") /\ InMonthRange(args.m)) =>
       LET x == args.m + 10
           t == MonthToDaySum(0, x % 32, (x \div 32) * 945)
       IN  /\ MonthToDayDividend(args.m) >= 0
           /\ ~ret.fault
           /\ ret.result = t.day_count - 308
  /\ (Done("nelsc_cycle_monthToYear") /\ InMonthRange(args.m)) =>
       LET x  == args.m + 10 + 1496
           r  == x % 2857
           r2 == IF r = 2856 THEN 0 ELSE r
           w  == MonthToYearWalk(
                   0, r2 % 136,
                   ((x \div 2857) * 231) + (IF r = 2856 THEN 230 ELSE 0)
                   + ((r2 \div 136) * 11))
       IN  /\ MonthToYearDividend(args.m) >= 0
           /\ MonthToYearSpanDividend(args.m) >= 0
           /\ ~ret.fault
           /\ ret.result = w.year_count - 121
           /\ ret.offset = IF r = 2856 THEN 12 ELSE w.m
  /\ (Done("nelsc_cycle_yearToMonth") /\ InYearRange(args.y)) =>
       LET x == args.y + 121
           r == x % 231
           t == YearToMonthSum(
                  0, r % 11, ((x \div 231) * 2857) + ((r \div 11) * 136))
       IN  /\ YearToMonthDividend(args.y) >= 0
           /\ YearToMonthSpanDividend(args.y) >= 0
           /\ ~ret.fault
           /\ ret.result = (t.month_count - 1496) - 10

\* C25 happens: the first day of the range, which is before year zero and
\* takes the boost of 35910 days, was decoded; its floor quotient by 945 is
\* -38.
C25_Witness ==
  /\ Done("nelsc_cycle_dayToMonth")
  /\ args.d = NELSC_CYCLE_DAYMIN
  /\ args.d + ABSOLUTE_DAY_OFFSET < 0
  /\ (args.d + ABSOLUTE_DAY_OFFSET) \div DAYS_PER_MONTH_PATTERN = 0 - 38
  /\ DayToMonthDividend(args.d) >= 0
  /\ ~ret.fault
  /\ ret.result = NELSC_CYCLE_MONMIN

\* C26: in grcal_offsetToDate the century count c is 4 only for the
\* offsets with offs mod 146097 = 146096 and the year count y is 4 only
\* for the offsets whose remainder inside a 4-year cycle is 1460.  Exactly
\* these offsets of the range decode to February 29; the year returned is
\* then a leap year, divisible by 400 in the first case; the offset before
\* decodes to February 28 and the offset after to March 1 of the same
\* year.  At the end of a century not divisible by 400 February 28 is
\* followed directly by March 1.
C26_LeapDayOffsets ==
  (Done("grcal_offsetToDate") /\ InGrRange(args.offs)) =>
    LET r     == GrDecompose(args.offs)
        inQ   == ((args.offs % 146097) % 36524) % 1461
        leapC == r.c = 4
        leapY == r.y = 4
    IN  /\ ~ret.fault
        /\ r.c \in 0 .. 4
        /\ r.y \in 0 .. 4
        /\ leapC <=> (args.offs % 146097 = 146096)
        /\ leapY <=> (inQ = 1460)
        /\ ((ret.month = 2) /\ (ret.day = 29)) <=> (leapC \/ leapY)
        /\ (leapC \/ leapY) =>
             /\ RefLeap(ret.year)
             /\ leapC => (ret.year % 400 = 0)
             /\ InGrRange(args.offs - 1)
             /\ InGrRange(args.offs + 1)
             /\ grcal_offsetToDate(args.offs - 1)
                  = [fault |-> FALSE, year |-> ret.year, month |-> 2,
                     day |-> 28]
             /\ grcal_offsetToDate(args.offs + 1)
                  = [fault |-> FALSE, year |-> ret.year, month |-> 3,
                     day |-> 1]
        /\ ((ret.month = 2) /\ (ret.day = 28) /\ (ret.year % 100 = 0)
             /\ (ret.year % 400 # 0) /\ InGrRange(args.offs + 1)) =>
             grcal_offsetToDate(args.offs + 1)
               = [fault |-> FALSE, year |-> ret.year, month |-> 3, day |-> 1]

\* C26 happens: the last day of a quad century, 2000-02-29, was decoded
\* with a century count of 4.
C26_Witness ==
  /\ Done("grcal_offsetToDate")
  /\ args.offs % QC_DAYS = QC_DAYS - 1
  /\ GrDecompose(args.offs).c = QC_C_COUNT
  /\ ret = [fault |-> FALSE, year |-> 2000, month |-> 2, day |-> 29]

\* C27: nelsc_cycle_monthToYear takes its force13 branch exactly for the
\* months whose boosted value (m + 10 + 1496) mod 2857 is 2856, and then
\* returns the last year of that 231-year pattern with the offset 12; for
\* every other month it returns the offset 12 only if the year is long by
\* the 11-year span pattern; at every interior boundary of 11-year spans
\* (span position 10 that is not the last year of a 231-year pattern) the
\* year has exactly 12 months, so the month after its month of offset 11
\* decodes to the next year at offset 0.
C27_ForcedThirteenth ==
  /\ (Done("nelsc_cycle_monthToYear") /\ InMonthRange(args.m)) =>
       LET x      == args.m + 10 + 1496
           forced == x % 2857 = 2856
           pos    == (ret.result + 121) % 231
       IN  /\ ~ret.fault
           /\ forced <=> (CMod(MonthToYearDividend(args.m),
                                MONTHS_PER_YEAR_PATTERN)
                           = MONTHS_PER_YEAR_PATTERN - 1)
           /\ forced => (MonthToYearSpanDividend(args.m) = 0)
           /\ forced => /\ ret.offset = 12
                         /\ pos = 230
                         /\ ret.result = (((x \div 2857) * 231) + 230) - 121
           /\ ((~forced) /\ (ret.offset = 12)) =>
                /\ pos # 230
                /\ m_year_span[(pos % 11) + 1] = "L"
           /\ ((pos % 11 = 10) /\ (pos # 230)) =>
                /\ ret.offset \in 0 .. 11
                /\ YearSpan(ret.result) = 12
                /\ ((ret.offset = 11) /\ InMonthRange(args.m + 1)) =>
                     nelsc_cycle_monthToYear(args.m + 1)
                       = [fault |-> FALSE, result |-> ret.result + 1,
                          offset |-> 0]
  /\ (Done("nelsc_cycle_yearToMonth") /\ InYearRange(args.y)) =>
       LET pos == (args.y + 121) % 231
       IN  /\ ~ret.fault
           /\ (pos = 230) =>
                nelsc_cycle_monthToYear(ret.result + 12)
                  = [fault |-> FALSE, result |-> args.y, offset |-> 12]
           /\ ((pos % 11 = 10) /\ (pos # 230) /\ InYearRange(args.y + 1)) =>
                nelsc_cycle_yearToMonth(args.y + 1).result = ret.result + 12

\* C27 happens: the last month of the first 231-year pattern was decoded
\* to year 109 at offset 12.
C27_Witness ==
  /\ Done("nelsc_cycle_monthToYear")
  /\ (args.m + ABSOLUTE_MONTH_OFFSET + MONTH_UP_BOOST)
       = MONTHS_PER_YEAR_PATTERN - 1
  /\ ret = [fault |-> FALSE, result |-> 109, offset |-> 12]

\* The call ended in abort(): there is no result.
Aborted == ret = Fault

\* C15: an argument outside the documented range is a fatal fault and
\* produces no result.  grcal_offsetToDate aborts for offs < 139750 and
\* for offs > 3214073; nelsc_cycle_dayToMonth aborts for d outside
\* -35364..175020; nelsc_cycle_monthToDay, nelsc_cycle_monthToYear and
\* nelsc_cycle_isLongMonth abort for m outside -1197..5926;
\* nelsc_cycle_yearToMonth and nelsc_cycle_isLongYear abort for y outside
\* -96..479.
C15_OutOfRangeAborts ==
  /\ (Done("grcal_offsetToDate")
        /\ ((args.offs < 139750) \/ (args.offs > 3214073))) => Aborted
  /\ (Done("nelsc_cycle_dayToMonth")
        /\ ((args.d < -35364) \/ (args.d > 175020))) => Aborted
  /\ ((Done("nelsc_cycle_monthToDay") \/ Done("nelsc_cycle_monthToYear")
         \/ Done("nelsc_cycle_isLongMonth"))
        /\ ((args.m < -1197) \/ (args.m > 5926))) => Aborted
  /\ ((Done("nelsc_cycle_yearToMonth") \/ Done("nelsc_cycle_isLongYear"))
        /\ ((args.y < -96) \/ (args.y > 479))) => Aborted

\* C15 happens: nelsc_cycle_isLongMonth was called with the month after
\* the last one.
C15_Witness ==
  /\ Done("nelsc_cycle_isLongMonth")
  /\ args.m = 5926 + 1
  /\ Aborted

\* The sum of a pattern of "S" and "L" entries, each "S" counting short and
\* each "L" counting long.
RECURSIVE PatternSum(_, _, _)
PatternSum(str, short, long) ==
  IF str = << >> THEN 0
  ELSE (IF Head(str) = "L" THEN long ELSE short)
       + PatternSum(Tail(str), short, long)

\* C14: the pattern tables sum to their declared periods.  The 32 entries
\* of m_month_pattern (S = 28, L = 35) sum to 945 days, the 11 entries of
\* m_year_span (S = 12, L = 13) sum to 136 months, 21 spans and the one
\* forced long year give 2857 months in 231 years, and the bias constants
\* are whole multiples of the periods: 35910 days = 38 x 945 paired with
\* 1216 months = 38 x 32.  The conversions show the periods: a month 32
\* months later has the same length and starts 945 days later, a year 231
\* years later has the same length and starts 2857 months later.
C14_PatternSums ==
  /\ Len(m_month_pattern) = 32
  /\ Len(m_month_pattern) = MONTH_PATTERN_LENGTH
  /\ PatternSum(m_month_pattern, 28, 35) = 945
  /\ PatternSum(m_month_pattern, DAYS_PER_SHORT_MONTH, DAYS_PER_LONG_MONTH)
       = DAYS_PER_MONTH_PATTERN
  /\ Len(m_year_span) = 11
  /\ Len(m_year_span) = YEAR_SPAN_LENGTH
  /\ PatternSum(m_year_span, 12, 13) = 136
  /\ PatternSum(m_year_span, MONTHS_PER_SHORT_YEAR, MONTHS_PER_LONG_YEAR)
       = MONTHS_PER_YEAR_SPAN
  /\ (21 * 136) + 1 = 2857
  /\ 21 * 11 = 231
  /\ (CDiv(YEAR_PATTERN_LENGTH, YEAR_SPAN_LENGTH) * MONTHS_PER_YEAR_SPAN) + 1
       = MONTHS_PER_YEAR_PATTERN
  /\ CMod(YEAR_PATTERN_LENGTH, YEAR_SPAN_LENGTH) = 0
  /\ DAY_UP_BOOST = 35910
  /\ MONTH_UP_SINK = 1216
  /\ DAY_UP_BOOST = 38 * DAYS_PER_MONTH_PATTERN
  /\ MONTH_UP_SINK = 38 * MONTH_PATTERN_LENGTH
  /\ (Done("nelsc_cycle_isLongMonth") /\ InMonthRange(args.m)
        /\ InMonthRange(args.m + MONTH_PATTERN_LENGTH)) =>
       /\ ~ret.fault
       /\ nelsc_cycle_isLongMonth(args.m + MONTH_PATTERN_LENGTH) = ret
       /\ nelsc_cycle_monthToDay(args.m + MONTH_PATTERN_LENGTH).result
            = nelsc_cycle_monthToDay(args.m).result + DAYS_PER_MONTH_PATTERN
  /\ (Done("nelsc_cycle_isLongYear") /\ InYearRange(args.y)
        /\ InYearRange(args.y + YEAR_PATTERN_LENGTH)) =>
       /\ ~ret.fault
       /\ nelsc_cycle_isLongYear(args.y + YEAR_PATTERN_LENGTH) = ret
       /\ nelsc_cycle_yearToMonth(args.y + YEAR_PATTERN_LENGTH).result
            = nelsc_cycle_yearToMonth(args.y).result + MONTHS_PER_YEAR_PATTERN

\* C14 happens: the length of a month before absolute month zero, which
\* takes the boost of 1216 months, was asked for, and the month one
\* pattern later takes no boost and starts 945 days later.
C14_Witness ==
  /\ Done("nelsc_cycle_isLongMonth")
  /\ args.m + ABSOLUTE_MONTH_OFFSET < 0
  /\ (args.m + MONTH_PATTERN_LENGTH) + ABSOLUTE_MONTH_OFFSET >= 0
  /\ ~ret.fault
  /\ ret.result
  /\ nelsc_cycle_monthToDay(args.m + MONTH_PATTERN_LENGTH).result
       = nelsc_cycle_monthToDay(args.m).result + DAYS_PER_MONTH_PATTERN

(***************************************************************************)
(* Claims about the digit functions of base24.h, checked under SpecBase24. *)
(***************************************************************************)

\* The codes of the 24 digits 0-9 A B C D E F G M P R T V X Y in capitals
\* and in small letters.
Base24DigitCodes ==
  LET capitals == {65, 66, 67, 68, 69, 70, 71, 77, 80, 82, 84, 86, 88, 89}
  IN  (48 .. 57) \cup capitals \cup {k + 32 : k \in capitals}

\* C20: base24_digitToInt(c) returns the value 0..23 of c for the 24
\* digits 0-9 A B C D E F G M P R T V X Y in either case and -1 for every
\* other character, the null character included; its result is always -1
\* or within 0..BASE24_DIGIT_MAX; and
\* base24_digitToInt(base24_intToDigit(v)) = v for every v of 0..23.
C20_DigitToIntExact ==
  /\ Done("base24_digitToInt") =>
       /\ ~ret.fault
       /\ (ret.result = -1) \/ (ret.result \in 0 .. BASE24_DIGIT_MAX)
       /\ (args.c \in Base24DigitCodes) =>
            /\ ret.result \in 0 .. 23
            /\ m_base24[ret.result + 1] = toupper(args.c)
       /\ (args.c \notin Base24DigitCodes) => (ret.result = -1)
  /\ (Done("base24_intToDigit") /\ (args.v \in 0 .. 23)) =>
       /\ ~ret.fault
       /\ base24_digitToInt(ret.result) = args.v

\* C20 fails here: base24_digitToInt was called with the null character
\* and returned 24, the index of the terminator of the digit string.
C20_Witness ==
  /\ Done("base24_digitToInt")
  /\ args.c = 0
  /\ ret.result = BASE24_DIGIT_MAX + 1

(***************************************************************************)
(* Claims about the pair functions of base24.h, checked under SpecPairs.   *)
(***************************************************************************)

\* The value of a base-24 digit: its place among 0-9 A B C D E F G M P R T
\* V X Y, capitals and small letters alike.
Base24DigitValue(c) ==
  CHOOSE k \in 0 .. 23 : m_base24[k + 1] = toupper(c)

\* The character at index i of a string: the terminating null character
\* at the end of the string is no digit.
IsBase24DigitAt(str, i) ==
  (i < Len(str)) /\ (str[i + 1] \in Base24DigitCodes)

\* C21: base24_pairToInt(str, pResult) returns true if and only if both
\* str[0] and str[1] are base-24 digits; it returns false and leaves the
\* variable behind pResult unchanged whenever the two characters cannot be
\* parsed as a pair, in particular for the empty string and for a string
\* of a single digit followed by the terminating null character; on
\* success the value written is 24 * hi + lo when that is at most 479 and
\* 24 * hi + lo - 576 otherwise, so it always lies in -96..479.
C21_PairToIntExact ==
  Done("base24_pairToInt") =>
    /\ ~ret.fault
    /\ ret.result <=> (IsBase24DigitAt(args.str, 0)
                        /\ IsBase24DigitAt(args.str, 1))
    /\ (~ret.result) => (ret.val = args.mem)
    /\ (Len(args.str) < 2) => ~ret.result
    /\ (ret.result /\ IsBase24DigitAt(args.str, 0)
          /\ IsBase24DigitAt(args.str, 1)) =>
         LET hi == Base24DigitValue(args.str[1])
             lo == Base24DigitValue(args.str[2])
         IN  ret.val = IF (24 * hi) + lo <= 479 THEN (24 * hi) + lo
                       ELSE ((24 * hi) + lo) - 576
    /\ ret.result => (ret.val \in (0 - 96) .. 479)

\* C21 fails here: the string of the single digit 7 was parsed as a pair
\* and 192 = 24 * 7 + 24 was written.
C21_Witness ==
  /\ Done("base24_pairToInt")
  /\ args.str = <<55>>
  /\ ret.result
  /\ ret.val = (24 * 7) + (BASE24_DIGIT_MAX + 1)
  /\ ret.val # args.mem

\* C22: the signed pair encoding is a bijection between the 576 two-digit
\* pairs and the integers -96..479, which is exactly the NELSC year range.
\* For every v of -96..479 the two digits printed by base24_printPair(v)
\* are parsed back by base24_pairToInt to v; every pair of two digits is
\* parsed to the value that is printed as that pair in capitals; every
\* NELSC year of NELSC_CYCLE_YEARMIN..NELSC_CYCLE_YEARMAX can be printed,
\* and every parsed pair is a valid argument of nelsc_cycle_yearToMonth.
C22_PairBijection ==
  /\ BASE24_PAIR_MIN = NELSC_CYCLE_YEARMIN
  /\ BASE24_PAIR_MAX = NELSC_CYCLE_YEARMAX
  /\ (BASE24_PAIR_MAX - BASE24_PAIR_MIN) + 1 = 24 * 24
  /\ (Done("base24_printPair") /\ InYearRange(args.v)) =>
       /\ ~ret.fault
       /\ Len(ret.text) = 2
       /\ \A i \in 1 .. 2 : (ret.text[i] \in Base24DigitCodes)
                             /\ (toupper(ret.text[i]) = ret.text[i])
       /\ \A u \in Base24PairMemory :
            base24_pairToInt(ret.text, 0, u)
              = [fault |-> FALSE, result |-> TRUE, val |-> args.v]
  /\ (Done("base24_pairToInt") /\ ret.result) =>
       /\ ret.val \in (0 - 96) .. 479
       /\ InYearRange(ret.val)
       /\ ~nelsc_cycle_yearToMonth(ret.val).fault
  /\ (Done("base24_pairToInt") /\ IsBase24DigitAt(args.str, 0)
        /\ IsBase24DigitAt(args.str, 1)) =>
       /\ ret.result
       /\ base24_printPair(ret.val)
            = [fault |-> FALSE,
               text |-> <<toupper(args.str[1]), toupper(args.str[2])>>]

\* C22 happens: the least year, -96, was printed as the pair "T0", which
\* is parsed back to -96.
C22_Witness ==
  /\ Done("base24_printPair")
  /\ args.v = NELSC_CYCLE_YEARMIN
  /\ ~ret.fault
  /\ ret.text = <<84, 48>>
  /\ base24_pairToInt(ret.text, 0, 0).val = 0 - 96

(***************************************************************************)
(* Claims about the NELSC date format, checked under SpecFormat.           *)
(***************************************************************************)

\* The year a pair of two digits stands for.
FormatYearOf(str) ==
  LET u == (24 * Base24DigitValue(str[1])) + Base24DigitValue(str[2])
  IN  IF u <= 479 THEN u ELSE u - 576

\* The absolute month of the text YY:Mw-d.
FormatMonthOf(str) ==
  nelsc_cycle_yearToMonth(FormatYearOf(str)).result
  + (Base24DigitValue(str[4]) - 1)

\* The text has the form YY:Mw-d of a date: YY is a pair, M is a digit of
\* 1..12, or of 1..13 in a long year, w is of 1..4, or of 1..5 in a long
\* month, and d is of 1..7.
FormatIsDate(str) ==
  /\ Len(str) >= 7
  /\ str[3] = 58
  /\ str[6] = 45
  /\ \A i \in {1, 2, 4, 5, 7} : str[i] \in Base24DigitCodes
  /\ Base24DigitValue(str[4]) >= 1
  /\ Base24DigitValue(str[4])
       <= (IF nelsc_cycle_isLongYear(FormatYearOf(str)).result
           THEN 13 ELSE 12)
  /\ Base24DigitValue(str[5]) >= 1
  /\ Base24DigitValue(str[5])
       <= (IF nelsc_cycle_isLongMonth(FormatMonthOf(str)).result
           THEN 5 ELSE 4)
  /\ Base24DigitValue(str[7]) \in 1 .. 7

\* C23: nelsc_format_scanDate accepts a text of seven characters YY:Mw-d
\* exactly when YY is a base-24 pair, M is a base-24 digit of 1..12 (1..13
\* when the year YY is long), w is of 1..4 (1..5 when that month is long)
\* and d is of 1..7; the thirteenth month of a short year and the fifth
\* week of a short month are rejected without a fault; on success the
\* offset written is nelsc_cycle_monthToDay(nelsc_cycle_yearToMonth(YY) +
\* M - 1) + 7 * (w - 1) + (d - 1), it lies in -35364..175020, and
\* nelsc_format_printDate prints that day back as the same text in
\* capitals.
C23_ScanDateExact ==
  Done("nelsc_format_scanDate") =>
    /\ ~ret.fault
    /\ ret.result <=> FormatIsDate(args.str)
    /\ (Len(args.str) < 7) => ~ret.result
    /\ ret.result =>
         /\ ret.offs
              = nelsc_cycle_monthToDay(FormatMonthOf(args.str)).result
                + (7 * (Base24DigitValue(args.str[5]) - 1))
                + (Base24DigitValue(args.str[7]) - 1)
         /\ ret.offs \in (0 - 35364) .. 175020
         /\ NelscText(ret.offs) = [i \in 1 .. 7 |-> toupper(args.str[i])]
         /\ nelsc_format_printDate(
              FormatYearOf(args.str),
              Base24DigitValue(args.str[4]) - 1,
              (7 * (Base24DigitValue(args.str[5]) - 1))
              + (Base24DigitValue(args.str[7]) - 1))
              = [fault |-> FALSE,
                 text |-> [i \in 1 .. 7 |-> toupper(args.str[i])]]

\* C23 happens: the fifth week of a short month was asked for and the text
\* was rejected with no fault, while the fourth week of that month is a
\* date.
C23_Witness ==
  /\ Done("nelsc_format_scanDate")
  /\ Len(args.str) = 7
  /\ args.str[5] = 53
  /\ ~ret.fault
  /\ ~ret.result
  /\ nelsc_format_scanDate([args.str EXCEPT ![5] = 52], 0, 0).result
  /\ ~nelsc_cycle_isLongMonth(FormatMonthOf(args.str)).result

(***************************************************************************)
(* Claims about the reports of nelsc.c.                                    *)
(***************************************************************************)

\* C28: printDayInformation(day) never reaches a fault for a day of
\* -35364..175020.  day + 264773 is inside the Gregorian range
\* 139750..3214073; the year, month in year and day in month obtained from
\* nelsc_cycle_dayToMonth and nelsc_cycle_monthToYear pass every check of
\* nelsc_format_printDate (nelsc_cycle_yearToMonth(year) + month in year
\* is the absolute month, and the offsets respect the limits of long and
\* short); and the Gregorian date passes the check of grcal_printDate.
\* Hence the day, month and date subprograms do not abort after their own
\* validation.
C28_DayReportNeverFaults ==
  /\ Done("printDayInformation") =>
       /\ args.day \in (0 - 35364) .. 175020
       /\ ~ret.fault
       /\ (args.day + 264773) \in 139750 .. 3214073
       /\ LET month == nelsc_cycle_dayToMonth(args.day)
              year  == nelsc_cycle_monthToYear(month.result)
              gr    == grcal_offsetToDate(args.day + 264773)
          IN  /\ ~month.fault
              /\ ~year.fault
              /\ ~gr.fault
              /\ year.result \in (0 - 96) .. 479
              /\ nelsc_cycle_yearToMonth(year.result).result + year.offset
                   = month.result
              /\ year.offset >= 0
              /\ year.offset
                   < (IF nelsc_cycle_isLongYear(year.result).result
                      THEN 13 ELSE 12)
              /\ month.offset >= 0
              /\ month.offset
                   < (IF nelsc_cycle_isLongMonth(month.result).result
                      THEN 35 ELSE 28)
              /\ ~nelsc_format_printDate(year.result, year.offset,
                                         month.offset).fault
              /\ grcal_dateToOffset(0, gr.year, gr.month, gr.day).result
              /\ ~grcal_printDate(gr.year, gr.month, gr.day).fault
  /\ (Done("sub_day") \/ Done("sub_month") \/ Done("sub_date")) => ~ret.fault

\* C28 happens: the last day of the range, the 35th day of the thirteenth
\* month of year 479, was reported.
C28_Witness ==
  /\ Done("printDayInformation")
  /\ args.day = NELSC_CYCLE_DAYMAX
  /\ ~ret.fault
  /\ ret.month_long
  /\ ret.year_long
  /\ ret.absolute_month = NELSC_CYCLE_MONMAX
  /\ nelsc_cycle_dayToMonth(args.day).offset = DAYS_PER_LONG_MONTH - 1

\* C29: the newyear report never reaches a fault.  For every year y of
\* -96..479 the first day of the year plus 264773 is inside the Gregorian
\* range; grcal_dateToOffset succeeds for March 20 of the Gregorian year
\* of that first day, so that gr_equinox is written before it is used;
\* and for every y > -96 the equinox day minus 264773 is inside
\* -35364..175020, so that nelsc_cycle_dayToMonth does not abort.
C29_NewYearNeverFaults ==
  /\ ((call = "sub_newyear") /\ (args.argc >= 0) /\ (pc # "ready")) =>
       ~ret.fault
  /\ ((call = "sub_newyear") /\ (pc = "loop")
        /\ (ret.y > NELSC_CYCLE_YEARMIN)) =>
       LET y     == ret.y - 1
           first == nelsc_cycle_monthToDay(
                      nelsc_cycle_yearToMonth(y).result).result + 264773
           gr    == grcal_offsetToDate(first)
           eq    == grcal_dateToOffset(0, gr.year, 3, 20)
       IN  /\ y \in (0 - 96) .. 479
           /\ first \in 139750 .. 3214073
           /\ ~gr.fault
           /\ ~eq.fault
           /\ eq.result
           /\ eq.offs \in 139750 .. 3214073
           /\ ret.gr_equinox = eq.offs
           /\ (y > (0 - 96)) =>
                /\ (eq.offs - 264773) \in (0 - 35364) .. 175020
                /\ ~nelsc_cycle_dayToMonth(eq.offs - 264773).fault
                /\ ret.year_drift
                     = nelsc_cycle_dayToMonth(eq.offs - 264773).result
                         - nelsc_cycle_yearToMonth(y).result
           /\ (y = (0 - 96)) =>
                /\ (eq.offs - 264773) < (0 - 35364)
                /\ ret.year_drift = 0 - 1

\* C29 happens: the report ran through every year, and the row of the last
\* year, 479, which begins in 2403, was written with the equinox of 2403.
C29_Witness ==
  /\ call = "sub_newyear"
  /\ pc = "loop"
  /\ ~ret.fault
  /\ ret.y = NELSC_CYCLE_YEARMAX + 1
  /\ ret.gr_equinox = grcal_dateToOffset(0, 2403, 3, 20).offs
  /\ ret.gr_equinox - 264773 <= 175020

(***************************************************************************)
(* Claims about the readers of a date, checked under SpecScan.             *)
(***************************************************************************)

\* dateToOffset with the two attempts in the other order: the Gregorian
\* reader first, the NELSC reader if it fails.
RefGregorianFirst(str, mem) ==
  LET failed == [fault |-> FALSE, result |-> FALSE, offset |-> mem]
      p0     == SkipSpace(str, 0)
      g      == grcal_scanDate(str, p0)
      n      == nelsc_format_scanDate(str, p0, 0)
      d      == g.offs - NELSC_CYCLE_GROFFS
  IN  IF ByteAt(str, p0) = 0 THEN failed
      ELSE IF g.fault THEN Fault
      ELSE IF g.offs # -1
      THEN IF (d >= NELSC_CYCLE_DAYMIN) /\ (d <= NELSC_CYCLE_DAYMAX)
              /\ OnlySpace(str, g.trail)
           THEN [fault |-> FALSE, result |-> TRUE, offset |-> d]
           ELSE failed
      ELSE IF n.fault THEN Fault
      ELSE IF n.result /\ OnlySpace(str, p0 + NELSC_FORMAT_DATE_LENGTH)
      THEN [fault |-> FALSE, result |-> TRUE, offset |-> n.offs]
      ELSE failed

\* Both readers take the text at position p.
ReadBothWays(str, p) ==
  /\ nelsc_format_scanDate(str, p, 0).result
  /\ grcal_scanDate(str, p).offs # -1

\* C30: no text is read both as a NELSC date and as a Gregorian date:
\* nelsc_format_scanDate and grcal_scanDate never both succeed on the same
\* string, so that the result of dateToOffset does not depend on its trying
\* NELSC first; and whenever dateToOffset returns false, *pOffset is what
\* it was.
C30_ReadersExclusive ==
  /\ (pc = "done") =>
       /\ ~ReadBothWays(args.str, 0)
       /\ ~ReadBothWays(args.str, SkipSpace(args.str, 0))
  /\ Done("nelsc_format_scanDate") =>
       /\ ~ret.fault
       /\ ret.result => (grcal_scanDate(args.str, 0).offs = -1)
  /\ Done("grcal_scanDate") =>
       /\ ~ret.fault
       /\ (ret.offs # -1) => ~nelsc_format_scanDate(args.str, 0, 0).result
  /\ Done("dateToOffset") =>
       /\ ~ret.fault
       /\ ret = RefGregorianFirst(args.str, args.mem)
       /\ (~ret.result) => (ret.offset = args.mem)

\* C30 happens: dateToOffset was given 2898-1-7, which the Gregorian reader
\* takes and the NELSC reader does not, and which is after the last NELSC
\* day; it returned false and left *pOffset alone.
C30_Witness ==
  /\ Done("dateToOffset")
  /\ args.str = <<50, 56, 57, 56, 45, 49, 45, 55>>
  /\ args.mem # 0
  /\ grcal_scanDate(args.str, 0).offs # -1
  /\ ~nelsc_format_scanDate(args.str, 0, 0).result
  /\ ~ret.result
  /\ ret.offset = args.mem

=============================================================================
